---- MODULE Spec2Model ----
(***************************************************************************)
(* SEIZ epidemic models on a social network: the baseline model            *)
(* (seiz_models/seiz.py), the Basic-Moderator model (seiz_models/          *)
(* seiz_bm.py), the Smart-Moderator model (seiz_models/seiz_sm.py) and     *)
(* the driver they share (seiz_models/base.py).                            *)
(*                                                                         *)
(* Real numbers are rationals <<num, den>> with den > 0.  The process-wide *)
(* generator of Python's random module has a small set of abstract states; *)
(* seeding, shuffle and the profile draws of initialize_states are         *)
(* deterministic functions of its state.  The variable `rng` is the set of *)
(* states the generator can be in: all of them at process start and after  *)
(* a step(), whose draws are over-approximated by every outcome the        *)
(* drawn-against probability allows.                                       *)
(***************************************************************************)
EXTENDS Integers, Sequences, FiniteSets, TLC

(* ---------------------------------------------------------------- bounds *)
\* largest graph (number of nodes)
MaxNodes == 3
\* largest `steps` argument of run()
MaxSteps == 2
\* largest graph a Smart-Moderator model is constructed on
MaxSMNodes == 2
\* largest graph in the specifications of run() and of two instances
SmallNodes == 2
\* seeds are 0..MaxSeed (or None)
MaxSeed == 0
\* number of abstract generator states
RngSize == 4
\* step() of the Smart-Moderator model is explored while every
\* activity_level is below this
MaxActivity == 1
\* number of consecutive Smart-Moderator steps whose starts and senders are kept
MaxTracedSteps == 3
\* number of run() calls explored on one model
MaxRuns == 2

\* largest `steps` argument of run() on the graph without nodes
EmptySteps == 5

\* trait values offered to compute_toxicity are k / TraitSteps, k in 0..TraitSteps
TraitSteps == 4
\* step() calls of a Smart-Moderator model whose phases are kept
MaxSMSteps == 2
\* largest toxic_messages of an agent handed to moderator_intervention
MaxToxicMessages == 2

(* ------------------------------------------------------------- rationals *)
Q(a, b) == <<a, b>>
QMul(x, y) == <<x[1] * y[1], x[2] * y[2]>>
QAdd(x, y) == <<x[1] * y[2] + y[1] * x[2], x[2] * y[2]>>
QSub(x, y) == <<x[1] * y[2] - y[1] * x[2], x[2] * y[2]>>
QLess(x, y) == x[1] * y[2] < y[1] * x[2]
QLeq(x, y) == x[1] * y[2] <= y[1] * x[2]
QInt(k) == <<k, 1>>

(* ------------------------------------------------------------ the graph *)
\* networkx.Graph: nodes are 1..n in insertion order, edges are unordered pairs.
Pairs(n) == {e \in SUBSET (1..n) : Cardinality(e) = 2}
\* the graphs models are constructed on: for every size up to MaxNodes the
\* graph without edges, the path 1-2-...-n, the star centred on n, the complete graph
EmptyGraph(n) == [n |-> n, edges |-> {}]
PathGraph(n) == [n |-> n, edges |-> {e \in Pairs(n) : \E i \in 1..n : e = {i, i + 1}}]
StarGraph(n) == [n |-> n, edges |-> {e \in Pairs(n) : n \in e}]
CompleteGraph(n) == [n |-> n, edges |-> Pairs(n)]
GraphsUpTo(k) ==
    UNION {{EmptyGraph(n), PathGraph(n), StarGraph(n), CompleteGraph(n)} : n \in 0..k}

\* graph.nodes()
GraphNodes(g) == 1..g.n
\* list(graph.nodes())
NodeList(g) == [i \in 1..g.n |-> i]

RECURSIVE SortedSeq(_)
SortedSeq(S) ==
    IF S = {} THEN <<>>
    ELSE LET lo == CHOOSE x \in S : \A y \in S : x <= y
         IN <<lo>> \o SortedSeq(S \ {lo})

\* variant of Neighbors: the nodes one or two edges away
NeighborsTwoHops(g, v) ==
    SortedSeq({u \in GraphNodes(g) \ {v} :
                \/ {u, v} \in g.edges
                \/ \E w \in GraphNodes(g) : {u, w} \in g.edges /\ {w, v} \in g.edges})

\* graph.neighbors(node), in adjacency order
Neighbors(g, v) == SortedSeq({u \in GraphNodes(g) : {u, v} \in g.edges})

(* --------------------------------------------------------- the generator *)
\* seed argument: None is <<>>, an integer k is <<k>>
None == <<>>
Seeds == {None} \cup {<<k>> : k \in 0..MaxSeed}
RngStates == 0..(RngSize - 1)

\* random.seed(k): the generator state it sets
RandomSeed(k) == k % RngSize
\* variant of SeedIfGiven: the seed argument is not used
SeedIgnored(seed, R) == R

\* `if seed is not None: random.seed(seed)`, the generator being in a state of R:
\* the states it can be in afterwards
SeedIfGiven(seed, R) == IF seed # <<>> THEN {RandomSeed(seed[1])} ELSE R
\* the generator after one draw
NextRng(r) == (r + 1) % RngSize
\* random.random(): a value in [0, 1)
RandomRandom(r) == Q(r, RngSize)
\* the generator's _randbelow(k): a value in 0..k-1
RandBelow(r, k) == r % k

Swap(x, i, j) == [x EXCEPT ![i] = x[j], ![j] = x[i]]

\* random.shuffle(x): for i in reversed(range(1, len(x))): j = randbelow(i + 1);
\* x[i], x[j] = x[j], x[i]     (positions here are 1-based)
RECURSIVE ShuffleFrom(_, _, _)
ShuffleFrom(x, i, r) ==
    IF i < 2 THEN [list |-> x, rng |-> r]
    ELSE ShuffleFrom(Swap(x, i, 1 + RandBelow(r, i)), i - 1, NextRng(r))

RandomShuffle(x, r) == ShuffleFrom(x, Len(x), r)

\* the outcomes of `random.random() < prob` for a rational prob
DrawBelow(prob) == {d \in BOOLEAN : IF d THEN prob[1] > 0 ELSE prob[1] < prob[2]}

(* ---------------------------------------------------------------- states *)
StateNames == {"S", "E", "I", "Z"}

\* d[k] = v on a Python dict: the key is added when absent
DictSet(d, k, v) == [x \in (DOMAIN d) \cup {k} |-> IF x = k THEN v ELSE d[x]]

\* variant of PyInt: round(x), halves going up
PyRound(x) == (2 * x[1] + x[2]) \div (2 * x[2])

\* variant of PyInt: max(1, int(x))
PyIntAtLeastOne(x) == IF x[1] \div x[2] >= 1 THEN x[1] \div x[2] ELSE 1

\* int(x) of a rational: truncation towards zero
PyInt(x) == IF x[1] >= 0 THEN x[1] \div x[2] ELSE -((-x[1]) \div x[2])

\* fractions offered to initialize_states
Fracs == {Q(0, 1), Q(1, 2), Q(1, 1)}

\* nodes[i] for a Python index i (0-based, negative counts from the end):
\* the 1-based position, or 0 when list access raises IndexError
PyIndex(len, i) ==
    IF 0 <= i /\ i < len THEN i + 1
    ELSE IF -len <= i /\ i < 0 THEN len + i + 1
    ELSE 0

(* ------------------------------------- baseline: SEIZModel (seiz.py) *)
\* SEIZModel.__init__: self.states[node] = "S" for every graph node
SEIZ_init(g) == [v \in GraphNodes(g) |-> "S"]

\* for node in nodes: self.states[node] = "S"     (from position i on)
RECURSIVE SEIZ_reset(_, _, _)
SEIZ_reset(st, nodes, i) ==
    IF i > Len(nodes) THEN st
    ELSE SEIZ_reset(DictSet(st, nodes[i], "S"), nodes, i + 1)

\* for i in range(lo, hi): self.states[nodes[i]] = val
RECURSIVE SEIZ_set_range(_, _, _, _, _)
SEIZ_set_range(st, nodes, lo, hi, val) ==
    IF lo >= hi THEN [states |-> st, err |-> "none"]
    ELSE IF PyIndex(Len(nodes), lo) = 0 THEN [states |-> st, err |-> "IndexError"]
    ELSE SEIZ_set_range(DictSet(st, nodes[PyIndex(Len(nodes), lo)], val),
                        nodes, lo + 1, hi, val)

\* variant of SkepticStart: the skeptic loop starts over at index 0
SkepticStartZero(n_infected) == 0

\* the first index of the skeptic loop: range(n_infected, n_infected + n_skeptic)
SkepticStart(n_infected) == n_infected

\* SEIZModel.initialize_states after the seeding, the generator being in state r
SEIZ_initialize_states(st, g, r, infected_frac, skeptic_frac) ==
    LET sh == RandomShuffle(NodeList(g), r)
        nodes == sh.list
        n == Len(nodes)
        reset == SEIZ_reset(st, nodes, 1)
        n_infected == PyInt(QMul(QInt(n), infected_frac))
        inf == SEIZ_set_range(reset, nodes, 0, n_infected, "I")
        n_skeptic == PyInt(QMul(QInt(n), skeptic_frac))
        skp == IF inf.err # "none" THEN inf
               ELSE SEIZ_set_range(inf.states, nodes, SkepticStart(n_infected),
                                   n_infected + n_skeptic, "Z")
    IN [states |-> skp.states, rng |-> sh.rng, err |-> skp.err]

\* SEIZModel.get_states: dict(self.states)
SEIZ_get_states(st) == st

(* ------------------------- Basic-Moderator: SEIZBMModel (seiz_bm.py) *)
\* Agent(state) of seiz_bm.py
BM_Agent(state) == [state |-> state]

\* SEIZBMModel.__init__: graph.nodes[node]["agent"] = Agent("S")
BM_init(g) == [v \in GraphNodes(g) |-> BM_Agent("S")]

\* for node in nodes: graph.nodes[node]["agent"].state = "S"
RECURSIVE BM_reset(_, _, _)
BM_reset(ag, nodes, i) ==
    IF i > Len(nodes) THEN ag
    ELSE BM_reset([ag EXCEPT ![nodes[i]].state = "S"], nodes, i + 1)

\* for i in range(lo, hi): graph.nodes[nodes[i]]["agent"].state = val
\* (the loop of both moderated models)
RECURSIVE Agent_set_range(_, _, _, _, _)
Agent_set_range(ag, nodes, lo, hi, val) ==
    IF lo >= hi THEN [agent |-> ag, err |-> "none"]
    ELSE IF PyIndex(Len(nodes), lo) = 0 THEN [agent |-> ag, err |-> "IndexError"]
    ELSE Agent_set_range([ag EXCEPT ![nodes[PyIndex(Len(nodes), lo)]].state = val],
                         nodes, lo + 1, hi, val)

\* SEIZBMModel.initialize_states after the seeding, the generator being in state r
BM_initialize_states(ag, g, r, infected_frac, skeptic_frac) ==
    LET sh == RandomShuffle(NodeList(g), r)
        nodes == sh.list
        n == Len(nodes)
        reset == BM_reset(ag, nodes, 1)
        n_infected == PyInt(QMul(QInt(n), infected_frac))
        inf == Agent_set_range(reset, nodes, 0, n_infected, "I")
        n_skeptic == PyInt(QMul(QInt(n), skeptic_frac))
        skp == IF inf.err # "none" THEN inf
               ELSE Agent_set_range(inf.agent, nodes, SkepticStart(n_infected),
                                    n_infected + n_skeptic, "Z")
    IN [agent |-> skp.agent, rng |-> sh.rng, err |-> skp.err]

\* get_states of both moderated models: node -> graph.nodes[node]["agent"].state
Agent_get_states(ag, g) == [v \in GraphNodes(g) |-> ag[v].state]

(* ------------------------- Smart-Moderator: SEIZSMModel (seiz_sm.py) *)
\* three consecutive random.random() draws
DrawProfile(r) ==
    <<RandomRandom(r), RandomRandom(NextRng(r)), RandomRandom(NextRng(NextRng(r)))>>
AfterProfile(r) == NextRng(NextRng(NextRng(r)))

\* Agent(state) of seiz_sm.py, the generator being in state r
SM_Agent(state, r) ==
    [state |-> state, profile |-> DrawProfile(r), toxic_messages |-> 0, activity_level |-> 0]

\* SEIZSMModel.__init__: graph.nodes[node]["agent"] = Agent("S"), node by node
RECURSIVE SM_init_from(_, _, _, _)
SM_init_from(ag, g, v, r) ==
    IF v > g.n THEN [agent |-> ag, rng |-> r]
    ELSE SM_init_from(DictSet(ag, v, SM_Agent("S", r)), g, v + 1, AfterProfile(r))

SM_init(g, r) == SM_init_from(<<>>, g, 1, r)

\* variant of SM_reset: the loop resets the state only
RECURSIVE SM_reset_state_only(_, _, _, _)
SM_reset_state_only(ag, nodes, i, r) ==
    IF i > Len(nodes) THEN [agent |-> ag, rng |-> r]
    ELSE SM_reset_state_only([ag EXCEPT ![nodes[i]].state = "S"], nodes, i + 1, r)

\* the reset loop of SEIZSMModel.initialize_states: state, profile and counters
RECURSIVE SM_reset(_, _, _, _)
SM_reset(ag, nodes, i, r) ==
    IF i > Len(nodes) THEN [agent |-> ag, rng |-> r]
    ELSE SM_reset([ag EXCEPT ![nodes[i]] =
                        [state |-> "S", profile |-> DrawProfile(r),
                         toxic_messages |-> 0, activity_level |-> 0]],
                  nodes, i + 1, AfterProfile(r))

\* SEIZSMModel.initialize_states after the seeding, the generator being in state r
SM_initialize_states(ag, g, r, infected_frac, skeptic_frac) ==
    LET sh == RandomShuffle(NodeList(g), r)
        nodes == sh.list
        n == Len(nodes)
        reset == SM_reset(ag, nodes, 1, sh.rng)
        n_infected == PyInt(QMul(QInt(n), infected_frac))
        inf == Agent_set_range(reset.agent, nodes, 0, n_infected, "I")
        n_skeptic == PyInt(QMul(QInt(n), skeptic_frac))
        skp == IF inf.err # "none" THEN inf
               ELSE Agent_set_range(inf.agent, nodes, SkepticStart(n_infected),
                                    n_infected + n_skeptic, "Z")
    IN [agent |-> skp.agent, rng |-> reset.rng, err |-> skp.err]

(* ------------------------------------------------------------ parameters *)
\* the least x, to two decimals, for which the double 1 - math.exp(-x) is 1.0
\* (exp(-x) is then below half the spacing of the doubles under 1.0; the exact
\* threshold is 37.42994775...)
ExpSaturation == Q(3743, 100)

\* variant of rate_to_prob: math.exp(-rate * dt), the complement forgotten
rate_to_prob_exp_only(rate, dt) ==
    LET x == QMul(rate, dt)
    IN IF x[1] = 0 THEN "one" ELSE IF x[1] < 0 THEN "above"
       ELSE IF QLeq(ExpSaturation, x) THEN "zero" ELSE "open"

\* rate_to_prob(rate, dt) = 1 - math.exp(-rate * dt) in double precision, by where
\* the value lies: "zero" (= 0.0) when rate * dt = 0, "negative" (< 0) when
\* rate * dt < 0, "one" (= 1.0) when rate * dt >= ExpSaturation, "open" (in (0, 1))
\* otherwise.  (A positive rate * dt below 5.6e-17 gives 0.0 too; no rational of
\* this model is that small.)
rate_to_prob(rate, dt) ==
    LET x == QMul(rate, dt)
    IN IF x[1] = 0 THEN "zero" ELSE IF x[1] < 0 THEN "negative"
       ELSE IF QLeq(ExpSaturation, x) THEN "one" ELSE "open"

\* the outcomes of `random.random() < prob` for a converted rate
DrawBelowRate(c) == IF c = "open" THEN BOOLEAN ELSE IF c = "one" THEN {TRUE} ELSE {FALSE}

\* parameter sets the models are constructed with (tests' fixtures and variations)
SEIZ_Params ==
    {[beta |-> Q(3, 10), b |-> Q(2, 10), rho |-> Q(2, 10), eps |-> Q(1, 10),
      p |-> Q(1, 2), l |-> Q(4, 10), dt |-> Q(1, 1)]}

BM_Params ==
    {[beta |-> Q(3, 10), b |-> Q(2, 10), rho |-> Q(2, 10), p |-> Q(1, 2),
      epsilon |-> Q(2, 10), l |-> Q(4, 10), mu |-> mm[1], m |-> mm[2]]
        : mm \in {<<Q(1, 10), Q(1, 2)>>}}

SM_Params ==
    {[beta |-> Q(3, 10), b |-> Q(2, 10), rho |-> Q(2, 10), p |-> Q(1, 2),
      epsilon |-> Q(2, 10), l |-> Q(4, 10), n |-> c[1], theta |-> c[2], T |-> c[3],
      eta |-> Q(1, 2), lambd |-> Q(2, 10)]
        : c \in {<<2, 1, Q(2, 5)>>}}

\* SEIZModel.__init__: the converted rates
prob_contact_I(P) == rate_to_prob(P.beta, P.dt)
prob_contact_Z(P) == rate_to_prob(P.b, P.dt)
prob_E_to_I(P) == rate_to_prob(P.rho, P.dt)
prob_I_to_E(P) == rate_to_prob(P.eps, P.dt)

(* ------------------------------------------------ baseline: SEIZModel.step *)
\* variant of SEIZ_contact: the Skeptic branch appends what the Infected branch does
SEIZ_contact_copied(P, src) ==
    IF src = "I" THEN
        UNION {IF d THEN {<<IF c THEN "I" ELSE "E">> : c \in DrawBelow(P.p)} ELSE {<<>>}
                  : d \in DrawBelowRate(prob_contact_I(P))}
    ELSE IF src = "Z" THEN
        UNION {IF d THEN {<<IF c THEN "I" ELSE "E">> : c \in DrawBelow(P.l)} ELSE {<<>>}
                  : d \in DrawBelowRate(prob_contact_Z(P))}
    ELSE {<<>>}

\* what one contact of a Susceptible node with a neighbour in state src appends
\* to the node's proposals: nothing, or one proposal
SEIZ_contact(P, src) ==
    IF src = "I" THEN
        UNION {IF d THEN {<<IF c THEN "I" ELSE "E">> : c \in DrawBelow(P.p)} ELSE {<<>>}
                  : d \in DrawBelowRate(prob_contact_I(P))}
    ELSE IF src = "Z" THEN
        UNION {IF d THEN {<<IF c THEN "Z" ELSE "E">> : c \in DrawBelow(P.l)} ELSE {<<>>}
                  : d \in DrawBelowRate(prob_contact_Z(P))}
    ELSE {<<>>}

\* the contact proposals node v can accumulate from its neighbours nbrs[k..],
\* in the order the contact loop visits them
RECURSIVE SEIZ_contact_lists(_, _, _, _)
SEIZ_contact_lists(st, P, nbrs, k) ==
    IF k > Len(nbrs) THEN {<<>>}
    ELSE {a \o rest : a \in SEIZ_contact(P, st[nbrs[k]]),
                      rest \in SEIZ_contact_lists(st, P, nbrs, k + 1)}

\* the self-transition proposal of node v (internal progressions loop)
SEIZ_internal(st, P, v) ==
    IF st[v] = "E" THEN {IF d THEN <<"I">> ELSE <<>> : d \in DrawBelowRate(prob_E_to_I(P))}
    ELSE IF st[v] = "I" THEN {IF d THEN <<"E">> ELSE <<>> : d \in DrawBelowRate(prob_I_to_E(P))}
    ELSE {<<>>}

\* variant of SEIZ_proposals: the contact loop does not test the neighbour's state
SEIZ_proposals_any_target(st, g, P, v) ==
    {c \o i : c \in SEIZ_contact_lists(st, P, Neighbors(g, v), 1),
              i \in SEIZ_internal(st, P, v)}

\* the values proposals[v] can have when the two loops are over
SEIZ_proposals(st, g, P, v) ==
    {c \o i : c \in (IF st[v] = "S" THEN SEIZ_contact_lists(st, P, Neighbors(g, v), 1)
                     ELSE {<<>>}),
              i \in SEIZ_internal(st, P, v)}

\* variant of RandomChoice: the first element has priority
RandomChoiceFirst(plist) == {plist[1]}

\* random.choice(plist)
RandomChoice(plist) == {plist[i] : i \in 1..Len(plist)}

\* the states node v can have after the step
SEIZ_node_next(st, g, P, v) ==
    UNION {IF pl = <<>> THEN {st[v]} ELSE RandomChoice(pl) : pl \in SEIZ_proposals(st, g, P, v)}

\* SEIZModel.step: the stores the step can end in
SEIZ_step(st, g, P) ==
    {f \in [DOMAIN st -> UNION {SEIZ_node_next(st, g, P, v) : v \in DOMAIN st}] :
        \A v \in DOMAIN st : f[v] \in SEIZ_node_next(st, g, P, v)}

\* the values the proposals of nodes 1..k can have when the two loops are over
\* (the empty list for a node without an entry)
RECURSIVE SEIZ_collect(_, _, _, _)
SEIZ_collect(st, g, P, k) ==
    IF k = 0 THEN {<<>>}
    ELSE {Append(pr, pl) : pr \in SEIZ_collect(st, g, P, k - 1),
                           pl \in SEIZ_proposals(st, g, P, k)}

\* for node, plist in proposals.items(): self.states[node] = random.choice(plist)
\* (nodes 1..k): the stores the loop can end in
RECURSIVE SEIZ_apply(_, _, _)
SEIZ_apply(st, pr, k) ==
    IF k = 0 THEN {st}
    ELSE {[f EXCEPT ![k] = x] :
            f \in SEIZ_apply(st, pr, k - 1),
            x \in (IF pr[k] = <<>> THEN {st[k]} ELSE RandomChoice(pr[k]))}

\* variant of SEIZ_step_outcomes: node after node, each node's proposals are
\* collected from, and applied to, the store as the nodes before it left it
RECURSIVE SEIZ_sequential_from(_, _, _, _)
SEIZ_sequential_from(outs, g, P, v) ==
    IF v > g.n THEN outs
    ELSE SEIZ_sequential_from(
            {[proposals |-> Append(o.proposals, pl), states |-> [o.states EXCEPT ![v] = x]] :
                <<o, pl, x>> \in
                    UNION {UNION {{<<o, pl, x>> :
                                     x \in (IF pl = <<>> THEN {o.states[v]}
                                            ELSE RandomChoice(pl))}
                                    : pl \in SEIZ_proposals(o.states, g, P, v)}
                              : o \in outs}},
            g, P, v + 1)

SEIZ_step_sequential(st, g, P) ==
    SEIZ_sequential_from({[proposals |-> <<>>, states |-> st]}, g, P, 1)

\* SEIZModel.step: the proposals it can collect, with the stores it can end in
SEIZ_step_outcomes(st, g, P) ==
    UNION {{[proposals |-> pr, states |-> f] : f \in SEIZ_apply(st, pr, g.n)}
              : pr \in SEIZ_collect(st, g, P, g.n)}

(* ----------------------------------- Basic-Moderator: SEIZBMModel.step *)
\* variant of BM_pass_S: no `break`, the scan goes on after a draw that succeeded
\* and a later success overwrites the entry
RECURSIVE BM_pass_S_no_break(_, _, _, _, _)
BM_pass_S_no_break(ag, P, nbrs, k, tried) ==
    IF k > Len(nbrs) THEN {[entry |-> "none", tried |-> tried]}
    ELSE LET nb_state == ag[nbrs[k]].state
             rest == BM_pass_S_no_break(ag, P, nbrs, k + 1, <<>>)
             After(e) == {[entry |-> IF r.entry = "none" THEN e ELSE r.entry,
                           tried |-> tried \o <<nbrs[k]>> \o r.tried] : r \in rest}
         IN IF nb_state = "I" THEN
                UNION {IF d THEN UNION {After(IF c THEN "I" ELSE "E") : c \in DrawBelow(P.p)}
                            ELSE After("none") : d \in DrawBelow(P.beta)}
            ELSE IF nb_state = "Z" THEN
                UNION {IF d THEN UNION {After(IF c THEN "Z" ELSE "E") : c \in DrawBelow(P.l)}
                            ELSE After("none") : d \in DrawBelow(P.b)}
            ELSE {[r EXCEPT !.tried = tried \o @] : r \in rest}

\* the scan of a Susceptible node over its neighbours nbrs[k..], `tried` being the
\* neighbours a contact draw (beta or b) was made against so far: the entry it
\* leaves in new_states ("none": no entry), with the neighbours tried
RECURSIVE BM_pass_S(_, _, _, _, _)
BM_pass_S(ag, P, nbrs, k, tried) ==
    IF k > Len(nbrs) THEN {[entry |-> "none", tried |-> tried]}
    ELSE LET nb_state == ag[nbrs[k]].state
             now == Append(tried, nbrs[k])
         IN IF nb_state = "I" THEN
                UNION {IF d THEN {[entry |-> IF c THEN "I" ELSE "E", tried |-> now]
                                    : c \in DrawBelow(P.p)}
                            ELSE BM_pass_S(ag, P, nbrs, k + 1, now) : d \in DrawBelow(P.beta)}
            ELSE IF nb_state = "Z" THEN
                UNION {IF d THEN {[entry |-> IF c THEN "Z" ELSE "E", tried |-> now]
                                    : c \in DrawBelow(P.l)}
                            ELSE BM_pass_S(ag, P, nbrs, k + 1, now) : d \in DrawBelow(P.b)}
            ELSE BM_pass_S(ag, P, nbrs, k + 1, tried)

\* the entry the scan of a Susceptible node leaves in new_states
BM_scan_S(ag, P, nbrs, k) == {r.entry : r \in BM_pass_S(ag, P, nbrs, k, <<>>)}

\* variant of BM_pass_E: the rho draw is made against every neighbour, whatever
\* its state
RECURSIVE BM_pass_E_any(_, _, _, _, _)
BM_pass_E_any(ag, P, nbrs, k, tried) ==
    IF k > Len(nbrs) THEN {[entry |-> "none", tried |-> tried]}
    ELSE UNION {IF d THEN {[entry |-> "I", tried |-> Append(tried, nbrs[k])]}
                     ELSE BM_pass_E_any(ag, P, nbrs, k + 1, Append(tried, nbrs[k]))
                   : d \in DrawBelow(P.rho)}

\* the scan of an Exposed node whose epsilon draw failed, `tried` being the
\* neighbours a rho draw was made against so far
RECURSIVE BM_pass_E(_, _, _, _, _)
BM_pass_E(ag, P, nbrs, k, tried) ==
    IF k > Len(nbrs) THEN {[entry |-> "none", tried |-> tried]}
    ELSE IF ag[nbrs[k]].state = "I" THEN
        UNION {IF d THEN {[entry |-> "I", tried |-> Append(tried, nbrs[k])]}
                    ELSE BM_pass_E(ag, P, nbrs, k + 1, Append(tried, nbrs[k]))
                  : d \in DrawBelow(P.rho)}
    ELSE BM_pass_E(ag, P, nbrs, k + 1, tried)

BM_scan_E(ag, P, nbrs, k) == {r.entry : r \in BM_pass_E(ag, P, nbrs, k, <<>>)}

\* variant of BM_node_pass: a moderated Infected node is sent back to Exposed (as
\* the baseline's I -> E), not to Susceptible
BM_node_pass_to_E(ag, g, P, v) ==
    LET state == ag[v].state
        With(R, own) == {[entry |-> r.entry, tried |-> r.tried, own |-> own] : r \in R}
    IN IF state = "S" THEN With(BM_pass_S(ag, P, Neighbors(g, v), 1, <<>>), FALSE)
       ELSE IF state = "E" THEN
            UNION {IF d THEN With({[entry |-> "I", tried |-> <<>>]}, TRUE)
                        ELSE With(BM_pass_E(ag, P, Neighbors(g, v), 1, <<>>), FALSE)
                      : d \in DrawBelow(P.epsilon)}
       ELSE IF state = "I" THEN
            UNION {IF d THEN With({[entry |-> IF c THEN "E" ELSE "none", tried |-> <<>>]
                                      : c \in DrawBelow(P.m)}, TRUE)
                        ELSE With({[entry |-> "none", tried |-> <<>>]}, FALSE)
                      : d \in DrawBelow(P.mu)}
       ELSE With({[entry |-> "none", tried |-> <<>>]}, FALSE)

\* the body of the node loop for node v: the entry v can get in new_states, the
\* neighbours its scan tried, and (Exposed, Infected) whether its own first draw
\* (epsilon, mu) succeeded
BM_node_pass(ag, g, P, v) ==
    LET state == ag[v].state
        With(R, own) == {[entry |-> r.entry, tried |-> r.tried, own |-> own] : r \in R}
    IN IF state = "S" THEN With(BM_pass_S(ag, P, Neighbors(g, v), 1, <<>>), FALSE)
       ELSE IF state = "E" THEN
            UNION {IF d THEN With({[entry |-> "I", tried |-> <<>>]}, TRUE)
                        ELSE With(BM_pass_E(ag, P, Neighbors(g, v), 1, <<>>), FALSE)
                      : d \in DrawBelow(P.epsilon)}
       ELSE IF state = "I" THEN
            UNION {IF d THEN With({[entry |-> IF c THEN "S" ELSE "none", tried |-> <<>>]
                                      : c \in DrawBelow(P.m)}, TRUE)
                        ELSE With({[entry |-> "none", tried |-> <<>>]}, FALSE)
                      : d \in DrawBelow(P.mu)}
       ELSE With({[entry |-> "none", tried |-> <<>>]}, FALSE)

\* the entry node v can get in new_states
BM_node_proposal(ag, g, P, v) == {r.entry : r \in BM_node_pass(ag, g, P, v)}

\* the values new_states can have after the node pass
BM_new_states(ag, g, P) ==
    {f \in [GraphNodes(g) -> UNION {BM_node_proposal(ag, g, P, v) : v \in GraphNodes(g)}] :
        \A v \in GraphNodes(g) : f[v] \in BM_node_proposal(ag, g, P, v)}

\* variant of BM_apply: every node gets its entry, the missing ones too
BM_apply_all(ag, new_states) ==
    [v \in DOMAIN ag |-> [ag[v] EXCEPT !.state = new_states[v]]]

\* for node, new_state in new_states.items(): agent.state = new_state
BM_apply(ag, new_states) ==
    [v \in DOMAIN ag |->
        IF v \in DOMAIN new_states /\ new_states[v] # "none"
        THEN [ag[v] EXCEPT !.state = new_states[v]] ELSE ag[v]]

\* SEIZBMModel.step: the stores the step can end in
BM_step(ag, g, P) == {BM_apply(ag, ns) : ns \in BM_new_states(ag, g, P)}

\* the node loop over nodes 1..k: what it can do for each of them
RECURSIVE BM_pass(_, _, _, _)
BM_pass(ag, g, P, k) ==
    IF k = 0 THEN {<<>>}
    ELSE {Append(pr, r) : pr \in BM_pass(ag, g, P, k - 1), r \in BM_node_pass(ag, g, P, k)}

\* new_states as the node loop with passes pr leaves it
BM_entries(pr) == [v \in DOMAIN pr |-> pr[v].entry]

\* variant of BM_step_outcomes: no buffer, each node's entry is computed from, and
\* written to, the store as the nodes before it left it
RECURSIVE BM_sequential_from(_, _, _, _)
BM_sequential_from(outs, g, P, v) ==
    IF v > g.n THEN outs
    ELSE BM_sequential_from(
            UNION {{[pass |-> Append(o.pass, r),
                     agent |-> IF r.entry = "none" THEN o.agent
                               ELSE [o.agent EXCEPT ![v].state = r.entry]]
                        : r \in BM_node_pass(o.agent, g, P, v)}
                      : o \in outs},
            g, P, v + 1)

BM_step_sequential(ag, g, P) == BM_sequential_from({[pass |-> <<>>, agent |-> ag]}, g, P, 1)

\* SEIZBMModel.step: what the node loop can do, with the store the step ends in
BM_step_outcomes(ag, g, P) ==
    {[pass |-> pr, agent |-> BM_apply(ag, BM_entries(pr))] : pr \in BM_pass(ag, g, P, g.n)}

(* ----------------------------------- Smart-Moderator: SEIZSMModel.step *)
\* random.sample(nodes, k): the lists of k distinct elements
RECURSIVE RandomSample(_, _)
RandomSample(S, k) ==
    IF k = 0 THEN {<<>>}
    ELSE UNION {{<<x>> \o rest : rest \in RandomSample(S \ {x}, k - 1)} : x \in S}

Min(a, b) == IF a <= b THEN a ELSE b

\* variant of SM_compute_toxicity: sum(agent.profile)
SM_toxicity_sum(a) == QAdd(QAdd(a.profile[1], a.profile[2]), a.profile[3])

\* SEIZSMModel.compute_toxicity: sum(agent.profile) / 3.0
SM_compute_toxicity(a) ==
    QMul(QAdd(QAdd(a.profile[1], a.profile[2]), a.profile[3]), Q(1, 3))

\* variant of SM_moderator_intervention: the Skeptic branch does not reset the
\* counter
SM_moderator_no_reset(P, a) ==
    IF a.toxic_messages >= P.theta THEN
        LET dark_trait_factor == QSub(Q(1, 1), SM_compute_toxicity(a))
            effective_eta == QMul(P.eta, dark_trait_factor)
        IN UNION {IF d THEN {[a EXCEPT !.state = "E", !.toxic_messages = 0]}
                       ELSE {IF c THEN [a EXCEPT !.state = "Z"] ELSE a
                                : c \in DrawBelow(P.lambd)}
                     : d \in DrawBelow(effective_eta)}
    ELSE {a}

\* variant of SM_moderator_intervention: a moderated agent goes back to
\* Susceptible, as in the Basic-Moderator step
SM_moderator_to_susceptible(P, a) ==
    IF a.toxic_messages >= P.theta THEN
        LET dark_trait_factor == QSub(Q(1, 1), SM_compute_toxicity(a))
            effective_eta == QMul(P.eta, dark_trait_factor)
        IN UNION {IF d THEN {[a EXCEPT !.state = "S", !.toxic_messages = 0]}
                       ELSE {IF c THEN [a EXCEPT !.state = "Z", !.toxic_messages = 0] ELSE a
                                : c \in DrawBelow(P.lambd)}
                     : d \in DrawBelow(effective_eta)}
    ELSE {a}

\* variant of SM_moderator_intervention: the moderated agent is replaced by a new
\* agent, whose profile is not the old one
SM_moderator_new_agent(P, a) ==
    IF a.toxic_messages >= P.theta THEN
        LET dark_trait_factor == QSub(Q(1, 1), SM_compute_toxicity(a))
            effective_eta == QMul(P.eta, dark_trait_factor)
            fresh == [a EXCEPT !.profile = <<Q(0, 1), Q(0, 1), Q(0, 1)>>, !.toxic_messages = 0]
        IN UNION {IF d THEN {[fresh EXCEPT !.state = "E"]}
                       ELSE {IF c THEN [fresh EXCEPT !.state = "Z"] ELSE a
                                : c \in DrawBelow(P.lambd)}
                     : d \in DrawBelow(effective_eta)}
    ELSE {a}

\* SEIZSMModel.moderator_intervention: the agents it can leave
SM_moderator_intervention(P, a) ==
    IF a.toxic_messages >= P.theta THEN
        LET dark_trait_factor == QSub(Q(1, 1), SM_compute_toxicity(a))
            effective_eta == QMul(P.eta, dark_trait_factor)
        IN UNION {IF d THEN {[a EXCEPT !.state = "E", !.toxic_messages = 0]}
                       ELSE {IF c THEN [a EXCEPT !.state = "Z", !.toxic_messages = 0] ELSE a
                                : c \in DrawBelow(P.lambd)}
                     : d \in DrawBelow(effective_eta)}
    ELSE {a}

\* variant of SM_send_one: no `if toxicity >= self.T`, every message of an
\* Infected sender counts as toxic
SM_send_one_any_toxicity(P, a) ==
    LET a1 == [a EXCEPT !.activity_level = @ + 1]
    IN IF a1.state = "I" THEN
            {[agent |-> a3, toxic |-> TRUE]
                : a3 \in SM_moderator_intervention(P, [a1 EXCEPT !.toxic_messages = @ + 1])}
       ELSE {[agent |-> a1, toxic |-> FALSE]}

\* variant of SM_send_one: activity_level is raised inside `if agent.state == "I"`
SM_send_one_infected_only(P, a) ==
    IF a.state = "I" THEN
        LET a1 == [a EXCEPT !.activity_level = @ + 1]
        IN IF QLeq(P.T, SM_compute_toxicity(a1)) THEN
                {[agent |-> a3, toxic |-> TRUE]
                    : a3 \in SM_moderator_intervention(P, [a1 EXCEPT !.toxic_messages = @ + 1])}
           ELSE {[agent |-> a1, toxic |-> FALSE]}
    ELSE {[agent |-> a, toxic |-> FALSE]}

\* variant of SM_send_one: no `if agent.state == "I"`, a message of any sender
\* with toxicity >= T is counted (only an Infected sender is recorded)
SM_send_one_counts_all(P, a) ==
    LET a1 == [a EXCEPT !.activity_level = @ + 1]
    IN IF QLeq(P.T, SM_compute_toxicity(a1)) THEN
            IF a1.state = "I" THEN
                {[agent |-> a3, toxic |-> TRUE]
                    : a3 \in SM_moderator_intervention(P, [a1 EXCEPT !.toxic_messages = @ + 1])}
            ELSE {[agent |-> [a1 EXCEPT !.toxic_messages = @ + 1], toxic |-> FALSE]}
       ELSE {[agent |-> a1, toxic |-> FALSE]}

\* variant of SM_send_one: the comparison with T is reversed
SM_send_one_below_T(P, a) ==
    LET a1 == [a EXCEPT !.activity_level = @ + 1]
    IN IF a1.state = "I" /\ QLeq(SM_compute_toxicity(a1), P.T) THEN
            {[agent |-> a3, toxic |-> TRUE]
                : a3 \in SM_moderator_intervention(P, [a1 EXCEPT !.toxic_messages = @ + 1])}
       ELSE {[agent |-> a1, toxic |-> FALSE]}

\* variant of SM_send_one: a toxic message is recorded but not counted
SM_send_one_not_counted(P, a) ==
    LET a1 == [a EXCEPT !.activity_level = @ + 1]
    IN IF a1.state = "I" /\ QLeq(P.T, SM_compute_toxicity(a1)) THEN
            {[agent |-> a3, toxic |-> TRUE] : a3 \in SM_moderator_intervention(P, a1)}
       ELSE {[agent |-> a1, toxic |-> FALSE]}

\* the body of the sender loop of send_messages for one sender: the agent it
\* leaves and whether the sender is appended to toxic_senders
SM_send_one(P, a) ==
    LET a1 == [a EXCEPT !.activity_level = @ + 1]
    IN IF a1.state = "I" /\ QLeq(P.T, SM_compute_toxicity(a1)) THEN
            {[agent |-> a3, toxic |-> TRUE]
                : a3 \in SM_moderator_intervention(P, [a1 EXCEPT !.toxic_messages = @ + 1])}
       ELSE {[agent |-> a1, toxic |-> FALSE]}

\* the sender loop from senders[k] on, started with store ag and list toxic_senders
RECURSIVE SM_send_from(_, _, _, _, _)
SM_send_from(P, ag, senders, k, toxic_senders) ==
    IF k > Len(senders) THEN {[agent |-> ag, toxic_senders |-> toxic_senders]}
    ELSE UNION {SM_send_from(P, [ag EXCEPT ![senders[k]] = r.agent], senders, k + 1,
                             IF r.toxic THEN Append(toxic_senders, senders[k])
                             ELSE toxic_senders)
                  : r \in SM_send_one(P, ag[senders[k]])}

\* SEIZSMModel.send_messages: the (store, toxic_senders) it can end with
SM_send_messages(ag, g, P) ==
    UNION {SM_send_from(P, ag, senders, 1, <<>>)
              : senders \in RandomSample(GraphNodes(g), Min(P.n, g.n))}

\* variant of SM_spread_one: the rho branch is an `else`, taken by every neighbour
\* that is not Susceptible
SM_spread_one_else(P, ag, nb) ==
    IF ag[nb].state = "S" THEN
        UNION {IF d THEN {[ag EXCEPT ![nb].state = IF c THEN "I" ELSE "E"] : c \in DrawBelow(P.p)}
                    ELSE {ag} : d \in DrawBelow(P.beta)}
    ELSE {IF d THEN [ag EXCEPT ![nb].state = "I"] ELSE ag : d \in DrawBelow(P.rho)}

\* variant of SM_spread_one: no `elif neighbor_agent.state == "E"` branch
SM_spread_one_susceptible_only(P, ag, nb) ==
    IF ag[nb].state = "S" THEN
        UNION {IF d THEN {[ag EXCEPT ![nb].state = IF c THEN "I" ELSE "E"] : c \in DrawBelow(P.p)}
                    ELSE {ag} : d \in DrawBelow(P.beta)}
    ELSE {ag}

\* the body of the neighbour loop of spread_toxicity for one neighbour
SM_spread_one(P, ag, nb) ==
    IF ag[nb].state = "S" THEN
        UNION {IF d THEN {[ag EXCEPT ![nb].state = IF c THEN "I" ELSE "E"] : c \in DrawBelow(P.p)}
                    ELSE {ag} : d \in DrawBelow(P.beta)}
    ELSE IF ag[nb].state = "E" THEN
        {IF d THEN [ag EXCEPT ![nb].state = "I"] ELSE ag : d \in DrawBelow(P.rho)}
    ELSE {ag}

\* the neighbours spread_toxicity visits, in order: every neighbour of every
\* toxic sender
RECURSIVE SM_spread_targets(_, _, _)
SM_spread_targets(g, toxic_senders, k) ==
    IF k > Len(toxic_senders) THEN <<>>
    ELSE Neighbors(g, toxic_senders[k]) \o SM_spread_targets(g, toxic_senders, k + 1)

\* the stores the visits targets[k..] can lead to from any store of `stores`
RECURSIVE SM_spread_from(_, _, _, _)
SM_spread_from(P, stores, targets, k) ==
    IF k > Len(targets) THEN stores
    ELSE SM_spread_from(P, UNION {SM_spread_one(P, ag, targets[k]) : ag \in stores},
                        targets, k + 1)

\* the visits of a buffered neighbour loop to targets[k..]: every visit reads the
\* store `start` the loop found, the states left are written to `ag`
RECURSIVE SM_spread_buffered_from(_, _, _, _, _, _)
SM_spread_buffered_from(P, start, ag, targets, k, visits) ==
    IF k > Len(targets) THEN {[agent |-> ag, visits |-> visits]}
    ELSE UNION {SM_spread_buffered_from(P, start,
                    [ag EXCEPT ![targets[k]].state = nx[targets[k]].state], targets, k + 1,
                    Append(visits, [node |-> targets[k], read |-> start[targets[k]].state,
                                    left |-> nx[targets[k]].state]))
                  : nx \in SM_spread_one(P, start, targets[k])}

\* variant of SM_spread_visits: the neighbours are evaluated on the store as it
\* was when the loop started
SM_spread_visits_buffered(P, ag, targets, k, visits) ==
    SM_spread_buffered_from(P, ag, ag, targets, k, visits)

\* the neighbour loop of spread_toxicity over targets[k..] from store ag, with
\* its visits (`visits`: those made so far): of each, the neighbour, the state
\* read and the state left
RECURSIVE SM_spread_visits(_, _, _, _, _)
SM_spread_visits(P, ag, targets, k, visits) ==
    IF k > Len(targets) THEN {[agent |-> ag, visits |-> visits]}
    ELSE UNION {SM_spread_visits(P, nx, targets, k + 1,
                    Append(visits, [node |-> targets[k], read |-> ag[targets[k]].state,
                                    left |-> nx[targets[k]].state]))
                  : nx \in SM_spread_one(P, ag, targets[k])}

\* variant of SM_spread_toxicity: a recorded sender that is no longer Infected is
\* skipped
SM_spread_still_infected(ag, g, P, toxic_senders) ==
    SM_spread_from(P, {ag},
        SM_spread_targets(g, SelectSeq(toxic_senders, LAMBDA u : ag[u].state = "I"), 1), 1)

\* SEIZSMModel.spread_toxicity
SM_spread_toxicity(ag, g, P, toxic_senders) ==
    SM_spread_from(P, {ag}, SM_spread_targets(g, toxic_senders, 1), 1)

\* the body of the node loop of internal_transitions for one agent
SM_internal_one(P, a) ==
    IF a.state = "E" THEN
        UNION {IF d THEN {[a EXCEPT !.state = "I"]}
                    ELSE {IF c THEN [a EXCEPT !.state = "Z"] ELSE a : c \in DrawBelow(P.lambd)}
                  : d \in DrawBelow(P.epsilon)}
    ELSE {a}

\* the node loop of internal_transitions from nodes[k] on, from any store of `stores`
RECURSIVE SM_internal_from(_, _, _, _)
SM_internal_from(P, stores, nodes, k) ==
    IF k > Len(nodes) THEN stores
    ELSE SM_internal_from(P,
            UNION {{[ag EXCEPT ![nodes[k]] = a] : a \in SM_internal_one(P, ag[nodes[k]])}
                      : ag \in stores},
            nodes, k + 1)

\* SEIZSMModel.internal_transitions
SM_internal_transitions(ag, g, P) == SM_internal_from(P, {ag}, NodeList(g), 1)

\* SEIZSMModel.step: send_messages, spread_toxicity, internal_transitions
SM_step(ag, g, P) ==
    UNION {UNION {SM_internal_transitions(spread, g, P)
                    : spread \in SM_spread_toxicity(sent.agent, g, P, sent.toxic_senders)}
              : sent \in SM_send_messages(ag, g, P)}

\* SEIZSMModel.step: the stores it can end in, each with the toxic_senders list
\* that send_messages returned
SM_step_senders(ag, g, P) ==
    UNION {{[agent |-> fin, toxic_senders |-> sent.toxic_senders]
                : fin \in UNION {SM_internal_transitions(spread, g, P)
                                   : spread \in SM_spread_toxicity(sent.agent, g, P,
                                                                    sent.toxic_senders)}}
              : sent \in SM_send_messages(ag, g, P)}

\* variant of SM_phase_after: internal_transitions is called before spread_toxicity
SM_phase_after_swapped(phase) ==
    IF phase = "send_messages" THEN "internal_transitions"
    ELSE IF phase = "internal_transitions" THEN "spread_toxicity"
    ELSE "idle"

\* SEIZSMModel.step: the call that follows the call `phase` ("idle": step returns)
SM_phase_after(phase) ==
    IF phase = "send_messages" THEN "spread_toxicity"
    ELSE IF phase = "spread_toxicity" THEN "internal_transitions"
    ELSE "idle"

(* ------------------------------------------- the driver (base.py) *)
Variants == {"SEIZ", "SEIZBM", "SEIZSM"}

\* get_states() of a model of variant var with store st (baseline) or ag (moderated)
GetStatesOf(var, st, ag, g) ==
    IF var = "SEIZ" THEN SEIZ_get_states(st) ELSE Agent_get_states(ag, g)

\* variant of count_states: dict(Counter(states.values())), no key added
count_states_occupied(gs) ==
    [s \in {gs[v] : v \in DOMAIN gs} |-> Cardinality({v \in DOMAIN gs : gs[v] = s})]

\* variant of count_states: Counter(set(states.values()))
count_states_distinct(gs) ==
    [s \in {gs[v] : v \in DOMAIN gs} \cup StateNames |->
        IF \E v \in DOMAIN gs : gs[v] = s THEN 1 ELSE 0]

\* BaseEpidemicModel.count_states, on the mapping get_states() returned:
\* Counter(states.values()), then every missing key of S, E, I, Z set to 0
count_states(gs) ==
    [s \in {gs[v] : v \in DOMAIN gs} \cup StateNames |->
        Cardinality({v \in DOMAIN gs : gs[v] = s})]

\* counts["step"] = step
HistoryRecord(counts, step) ==
    [k \in (DOMAIN counts) \cup {"step"} |-> IF k = "step" THEN step ELSE counts[k]]

\* variant of RunResetHistory: the history is kept
RunKeepHistory(h) == h

\* run(): self.history = []
RunResetHistory(h) == <<>>

\* variant of RunLoopContinues: for step in range(steps + 1)
RunLoopOneMore(step, steps) == step <= steps

\* run(): for step in range(steps)
RunLoopContinues(step, steps) == step < steps

(* ------------------------------------------------------------ the state *)
VARIABLES
    variant,        \* the class of the model instances
    params,         \* self.params, and the attributes holding the same values
    graph,          \* the networkx graph the instances are constructed on
    models,         \* the number of instances constructed (on the same graph)
    states,         \* states[m]: self.states of baseline instance m
    agent,          \* agent[v]: graph.nodes[v]["agent"] (moderated variants)
    history,        \* history[m]: self.history
    current_step,   \* current_step[m]: self._current_step
    frame,          \* the run() call in progress, if any, and its loop index
    rng,            \* the states the process-wide generator of random can be in
    last,           \* the API call entered last: its arguments and its outcome
    ghost           \* bookkeeping of the run() calls, for the properties

vars == <<variant, params, graph, models, states, agent, history, current_step,
          frame, rng, last, ghost>>

Idle == [pc |-> "idle", m |-> 0, steps |-> 0, step |-> 0]

Call(op, m) ==
    [op |-> op, m |-> m, infected_frac |-> Q(0, 1), skeptic_frac |-> Q(0, 1),
     seed |-> None, err |-> "none", steps |-> 0, out |-> <<>>]

\* ghost: of the run() calls, their number, the step() calls of the last one, the
\* counts after each of these, the length of the history it found; the mapping
\* get_states() returned after a kept initialize_states call; of the last
\* initialize_states call, the shuffled node list and whether the store it found
\* held an Exposed node or a counter that was not 0; of the last kept baseline
\* step, the store it started from and the proposals it collected; of the last
\* kept Smart-Moderator step, the senders and the store after each phase
NoRuns ==
    [runs |-> 0, step_calls |-> 0, trace |-> <<>>, old_len |-> 0, ret |-> <<>>,
     nodes |-> <<>>, dirty |-> FALSE, before |-> <<>>, proposals |-> <<>>,
     phases |-> <<>>]

ParamsOf(var) ==
    IF var = "SEIZ" THEN SEIZ_Params ELSE IF var = "SEIZBM" THEN BM_Params ELSE SM_Params

\* get_states() of instance m
GetStates(m) == GetStatesOf(variant, states[m], agent, graph)

\* the state after the constructor of the first instance, on a graph of at most
\* max_nodes nodes (max_sm_nodes for a Smart-Moderator model)
InitOn(max_nodes, max_sm_nodes) ==
    /\ variant \in Variants
    /\ params \in ParamsOf(variant)
    /\ graph \in GraphsUpTo(IF variant = "SEIZSM" THEN max_sm_nodes ELSE max_nodes)
    /\ models = 1
    /\ states = [m \in {1} |-> IF variant = "SEIZ" THEN SEIZ_init(graph) ELSE <<>>]
    /\ \E r \in RngStates :
        /\ agent = IF variant = "SEIZ" THEN <<>>
                   ELSE IF variant = "SEIZBM" THEN BM_init(graph)
                   ELSE SM_init(graph, r).agent
        /\ rng = IF variant = "SEIZSM" THEN {SM_init(graph, r).rng} ELSE RngStates
    /\ history = [m \in {1} |-> <<>>]
    /\ current_step = [m \in {1} |-> 0]
    /\ frame = Idle
    /\ last = Call("__init__", 1)
    /\ ghost = NoRuns

Init == InitOn(MaxNodes, MaxSMNodes)

\* some node is Exposed or (Smart-Moderator) some counter is not 0
Dirty(m) ==
    \/ \E v \in DOMAIN GetStates(m) : GetStates(m)[v] = "E"
    \/ /\ variant = "SEIZSM"
       /\ \E v \in DOMAIN agent : agent[v].toxic_messages # 0 \/ agent[v].activity_level # 0


\* model m: initialize_states(infected_frac, skeptic_frac, seed), the generator
\* being in state r after the seeding
InitializeStatesWith(m, infected_frac, skeptic_frac, seed, r) ==
    /\ frame.pc = "idle"
    /\ LET res == IF variant = "SEIZ"
                  THEN SEIZ_initialize_states(states[m], graph, r, infected_frac, skeptic_frac)
                  ELSE IF variant = "SEIZBM"
                  THEN BM_initialize_states(agent, graph, r, infected_frac, skeptic_frac)
                  ELSE SM_initialize_states(agent, graph, r, infected_frac, skeptic_frac)
       IN /\ states' = IF variant = "SEIZ" THEN [states EXCEPT ![m] = res.states] ELSE states
          /\ agent' = IF variant = "SEIZ" THEN agent ELSE res.agent
          /\ rng' = {res.rng}
          /\ last' = [Call("initialize_states", m) EXCEPT
                        !.infected_frac = infected_frac, !.skeptic_frac = skeptic_frac,
                        !.seed = seed, !.err = res.err]
    /\ UNCHANGED <<variant, params, graph, models, history, current_step, frame>>

\* model m: initialize_states(infected_frac, skeptic_frac, seed)
InitializeStates(m, infected_frac, skeptic_frac, seed) ==
    \E r \in SeedIfGiven(seed, rng) :
        /\ InitializeStatesWith(m, infected_frac, skeptic_frac, seed, r)
        /\ ghost' = [ghost EXCEPT !.nodes = RandomShuffle(NodeList(graph), r).list,
                                  !.dirty = Dirty(m)]

\* the effect of one step() call of model m on the stores and the generator
DoStep(m) ==
    /\ rng' = RngStates
    /\ IF variant = "SEIZ"
       THEN /\ \E st \in SEIZ_step(states[m], graph, params) :
                    states' = [states EXCEPT ![m] = st]
            /\ agent' = agent
       ELSE /\ agent' \in (IF variant = "SEIZBM" THEN BM_step(agent, graph, params)
                           ELSE SM_step(agent, graph, params))
            /\ states' = states

\* step() of the Smart-Moderator model is explored below the activity bound
StepInBounds(k) ==
    variant = "SEIZSM" => \A v \in DOMAIN agent : agent[v].activity_level + k <= MaxActivity

\* model m: step()
Step(m) ==
    /\ frame.pc = "idle"
    /\ StepInBounds(1)
    /\ DoStep(m)
    /\ last' = Call("step", m)
    /\ ghost' = [ghost EXCEPT !.nodes = <<>>, !.dirty = FALSE]
    /\ UNCHANGED <<variant, params, graph, models, history, current_step, frame>>

Next ==
    \/ \E m \in 1..models, fi \in Fracs, fz \in Fracs, seed \in Seeds :
            InitializeStates(m, fi, fz, seed)
    \/ \E m \in 1..models : Step(m)

Spec == Init /\ [][Next]_vars

(* ------------------------------------------------- the baseline step *)
\* a baseline model
InitBaseline == Init /\ variant = "SEIZ"

\* model m: initialize_states(infected_frac, skeptic_frac, seed); nothing is kept
InitializeFresh(m, infected_frac, skeptic_frac, seed) ==
    /\ \E r \in SeedIfGiven(seed, rng) :
            InitializeStatesWith(m, infected_frac, skeptic_frac, seed, r)
    /\ ghost' = NoRuns

\* baseline model m: step(); the store it starts from and the proposals are kept
BaselineStep(m) ==
    /\ frame.pc = "idle"
    /\ variant = "SEIZ"
    /\ \E o \in SEIZ_step_outcomes(states[m], graph, params) :
            /\ states' = [states EXCEPT ![m] = o.states]
            /\ ghost' = [NoRuns EXCEPT !.before = <<states[m]>>, !.proposals = o.proposals]
    /\ rng' = RngStates
    /\ last' = Call("step", m)
    /\ UNCHANGED <<variant, params, graph, models, agent, history, current_step, frame>>

NextBaseline ==
    \/ \E m \in 1..models, fi \in Fracs, fz \in Fracs, seed \in Seeds :
            InitializeFresh(m, fi, fz, seed)
    \/ \E m \in 1..models : BaselineStep(m)

\* initialize_states and step calls on a baseline model
SpecBaseline == InitBaseline /\ [][NextBaseline]_vars

(* ------------------------------------------------------------ run() *)
\* model m: run(steps) is called: self.history = []
RunStart(m, steps) ==
    /\ frame.pc = "idle"
    /\ ghost.runs < MaxRuns
    /\ StepInBounds(steps)
    /\ history' = [history EXCEPT ![m] = RunResetHistory(history[m])]
    /\ frame' = [pc |-> "run", m |-> m, steps |-> steps, step |-> 0]
    /\ ghost' = [ghost EXCEPT
                    !.runs = @ + 1, !.step_calls = 0,
                    !.trace = <<count_states(GetStates(m))>>, !.old_len = Len(history[m]),
                    !.nodes = <<>>, !.dirty = FALSE]
    /\ last' = [Call("run", m) EXCEPT !.steps = steps]
    /\ UNCHANGED <<variant, params, graph, models, states, agent, current_step, rng>>

\* variant of RunLoopBody: step() is invoked before the snapshot is taken
RunLoopStepFirst(m, step) ==
    /\ current_step' = [current_step EXCEPT ![m] = step]
    /\ DoStep(m)
    /\ history' = [history EXCEPT
                     ![m] = Append(@, HistoryRecord(
                                count_states(GetStatesOf(variant, states'[m], agent', graph)),
                                step))]

\* the body of the loop of run(), for loop index `step`
RunLoopBody(m, step) ==
    /\ current_step' = [current_step EXCEPT ![m] = step]
    /\ history' = [history EXCEPT
                     ![m] = Append(@, HistoryRecord(count_states(GetStates(m)), step))]
    /\ DoStep(m)

\* model m: one iteration of the loop of run()
RunIter(m) ==
    /\ frame.pc = "run" /\ frame.m = m
    /\ RunLoopContinues(frame.step, frame.steps)
    /\ RunLoopBody(m, frame.step)
    /\ frame' = [frame EXCEPT !.step = @ + 1]
    /\ ghost' = [ghost EXCEPT
                    !.step_calls = @ + 1,
                    !.trace = Append(@, count_states(GetStatesOf(variant, states'[m],
                                                                 agent', graph)))]
    /\ UNCHANGED <<variant, params, graph, models, last>>

\* model m: the loop of run() is over: the final record, and run() returns
RunFinish(m) ==
    /\ frame.pc = "run" /\ frame.m = m
    /\ ~RunLoopContinues(frame.step, frame.steps)
    /\ history' = [history EXCEPT
                     ![m] = Append(@, HistoryRecord(count_states(GetStates(m)), frame.steps))]
    /\ frame' = Idle
    /\ UNCHANGED <<variant, params, graph, models, states, agent, current_step, rng, last,
                   ghost>>

NextRun ==
    \/ \E m \in 1..models, fi \in Fracs, fz \in Fracs, seed \in Seeds :
            ghost.runs = 0 /\ InitializeStates(m, fi, fz, seed)
    \/ \E m \in 1..models, steps \in 0..MaxSteps : RunStart(m, steps)
    \/ \E m \in 1..models : RunIter(m)
    \/ \E m \in 1..models : RunFinish(m)

\* initialize_states, then run() calls, on one model
InitRun == InitOn(SmallNodes, SmallNodes)

SpecRun == InitRun /\ [][NextRun]_vars

(* ------------------------------- initialize_states, step and run calls *)
NextFrame ==
    \/ \E m \in 1..models, fi \in Fracs, fz \in Fracs, seed \in Seeds :
            ghost.runs = 0 /\ last.op # "step" /\ InitializeStates(m, fi, fz, seed)
    \/ \E m \in 1..models : ghost.runs = 0 /\ last.op # "step" /\ Step(m)
    \/ \E m \in 1..models, steps \in 0..MaxSteps : RunStart(m, steps)
    \/ \E m \in 1..models : RunIter(m)
    \/ \E m \in 1..models : RunFinish(m)

\* initialize_states calls, one step call, then run calls, on one model
SpecFrame == InitRun /\ [][NextFrame]_vars

(* ------------------------------------------------- the pure functions *)
\* trait values, rates and step sizes the functions are applied to
Traits == {Q(k, TraitSteps) : k \in 0..TraitSteps}
Rates == {Q(0, 1), Q(1, 10), Q(3, 10), Q(1, 1), Q(20, 1), Q(40, 1)}
Dts == {Q(1, 2), Q(1, 1), Q(2, 1)}

\* model m (Smart-Moderator): compute_toxicity(agent) for an agent with the given profile
ComputeToxicity(m, profile) ==
    /\ frame.pc = "idle"
    /\ variant = "SEIZSM"
    /\ LET a == [state |-> "S", profile |-> profile, toxic_messages |-> 0,
                 activity_level |-> 0]
       IN last' = [Call("compute_toxicity", m) EXCEPT
                        !.out = <<profile, SM_compute_toxicity(a)>>]
    /\ UNCHANGED <<variant, params, graph, models, states, agent, history, current_step,
                   frame, rng, ghost>>

\* rate_to_prob(rate, dt), the module-level function
RateToProb(rate, dt) ==
    /\ frame.pc = "idle"
    /\ last' = [Call("rate_to_prob", 0) EXCEPT !.out = <<rate, dt, rate_to_prob(rate, dt)>>]
    /\ UNCHANGED <<variant, params, graph, models, states, agent, history, current_step,
                   frame, rng, ghost>>

NextPure ==
    \/ \E m \in 1..models, t1 \in Traits, t2 \in Traits, t3 \in Traits :
            ComputeToxicity(m, <<t1, t2, t3>>)
    \/ \E rate \in Rates, dt \in Dts : RateToProb(rate, dt)

\* compute_toxicity and rate_to_prob applied to the offered arguments
SpecPure == InitRun /\ [][NextPure]_vars

(* ---------------------------------------------------- export and plot *)
\* self.__class__.__name__
ClassName(var) ==
    IF var = "SEIZ" THEN "SEIZModel" ELSE IF var = "SEIZBM" THEN "SEIZBMModel" ELSE "SEIZSMModel"

\* to_json: the document that is serialised
ToJsonOutput(var, P, g, h) ==
    [model_type |-> ClassName(var), parameters |-> P,
     network_info |-> [num_nodes |-> g.n, num_edges |-> Cardinality(g.edges)],
     history |-> h]

\* plot, save_plot: `if not self.history: raise ValueError(...)`
PlotError(h) == IF h = <<>> THEN "ValueError" ELSE "none"

\* plot, save_plot: the four series drawn against the step fields
PlotSeries(h) == [k \in StateNames \cup {"step"} |-> [i \in 1..Len(h) |-> h[i][k]]]

\* model m: to_json() returns the serialised document
ToJson(m) ==
    /\ frame.pc = "idle"
    /\ last' = [Call("to_json", m) EXCEPT
                    !.out = <<ToJsonOutput(variant, params, graph, history[m])>>]
    /\ UNCHANGED <<variant, params, graph, models, states, agent, history, current_step,
                   frame, rng, ghost>>

\* model m: save_json(filepath) writes what to_json() returns
SaveJson(m) ==
    /\ frame.pc = "idle"
    /\ last' = [Call("save_json", m) EXCEPT
                    !.out = <<ToJsonOutput(variant, params, graph, history[m])>>]
    /\ UNCHANGED <<variant, params, graph, models, states, agent, history, current_step,
                   frame, rng, ghost>>

\* model m: plot() shows the figure, or raises
Plot(m) ==
    /\ frame.pc = "idle"
    /\ last' = [Call("plot", m) EXCEPT
                    !.err = PlotError(history[m]),
                    !.out = IF PlotError(history[m]) = "none"
                            THEN <<PlotSeries(history[m])>> ELSE <<>>]
    /\ UNCHANGED <<variant, params, graph, models, states, agent, history, current_step,
                   frame, rng, ghost>>

\* model m: save_plot(filepath) saves the figure, or raises
SavePlot(m) ==
    /\ frame.pc = "idle"
    /\ last' = [Call("save_plot", m) EXCEPT
                    !.err = PlotError(history[m]),
                    !.out = IF PlotError(history[m]) = "none"
                            THEN <<PlotSeries(history[m])>> ELSE <<>>]
    /\ UNCHANGED <<variant, params, graph, models, states, agent, history, current_step,
                   frame, rng, ghost>>

NextExport ==
    \/ NextRun
    \/ \E m \in 1..models : ToJson(m)
    \/ \E m \in 1..models : SaveJson(m)
    \/ \E m \in 1..models : Plot(m)
    \/ \E m \in 1..models : SavePlot(m)

\* initialize_states and run() calls on one model, exports and plots between them
SpecExport == InitRun /\ [][NextExport]_vars

(* ------------------------------------------------------ empty network *)
\* a model of any variant constructed on networkx.Graph(), the graph without nodes
InitEmpty == InitOn(0, 0)

NextEmpty ==
    \/ \E m \in 1..models, fi \in Fracs, fz \in Fracs, seed \in Seeds :
            InitializeStates(m, fi, fz, seed)
    \/ \E m \in 1..models : Step(m)
    \/ \E m \in 1..models, steps \in 0..EmptySteps : RunStart(m, steps)
    \/ \E m \in 1..models : RunIter(m)
    \/ \E m \in 1..models : RunFinish(m)

\* initialize_states, step and run() calls on the empty network
SpecEmpty == InitEmpty /\ [][NextEmpty]_vars

(* ------------------------------------------------------- two instances *)
\* the constructor of a second instance of the same class, with the same
\* parameters, on the same graph object
Construct2 ==
    /\ frame.pc = "idle"
    /\ models = 1
    /\ models' = 2
    /\ states' = [m \in {1, 2} |-> IF m = 1 THEN states[1]
                                   ELSE IF variant = "SEIZ" THEN SEIZ_init(graph) ELSE <<>>]
    /\ \E r \in rng :
        /\ agent' = IF variant = "SEIZ" THEN agent
                    ELSE IF variant = "SEIZBM" THEN BM_init(graph)
                    ELSE SM_init(graph, r).agent
        /\ rng' = IF variant = "SEIZSM" THEN {SM_init(graph, r).rng} ELSE rng
    /\ history' = [m \in {1, 2} |-> IF m = 1 THEN history[1] ELSE <<>>]
    /\ current_step' = [m \in {1, 2} |-> IF m = 1 THEN current_step[1] ELSE 0]
    /\ last' = Call("__init__", 2)
    /\ UNCHANGED <<variant, params, graph, frame, ghost>>

\* model m: initialize_states(...), then get_states().  The first call with a seed
\* is kept, with the mapping returned; the calls after it use its fractions.
InitializeAndGet(m, infected_frac, skeptic_frac, seed) ==
    /\ ghost.ret # <<>> =>
            /\ infected_frac = ghost.ret[1].infected_frac
            /\ skeptic_frac = ghost.ret[1].skeptic_frac
    /\ \E r \in SeedIfGiven(seed, rng) :
            InitializeStatesWith(m, infected_frac, skeptic_frac, seed, r)
    /\ ghost' = IF ghost.ret = <<>> /\ seed # None
                THEN [ghost EXCEPT !.ret = <<[last' EXCEPT !.steps = 0] @@
                        [states |-> GetStatesOf(variant, states'[m], agent', graph)]>>]
                ELSE ghost

NextTwo ==
    \/ Construct2
    \/ \E m \in 1..models, fi \in Fracs, fz \in Fracs, seed \in Seeds :
            InitializeAndGet(m, fi, fz, seed)

\* two instances on one graph: initialize_states on either, get_states after it
SpecTwo == InitRun /\ [][NextTwo]_vars

\* two instances on one graph: initialize_states and step on either
NextShare ==
    \/ Construct2
    \/ \E m \in 1..models, fi \in Fracs, fz \in Fracs, seed \in Seeds :
            InitializeStates(m, fi, fz, seed)
    \/ \E m \in 1..models : Step(m)

SpecShare == InitRun /\ [][NextShare]_vars

(* ------------------------------------------- one step, any variant *)
\* model m: step(); the mapping get_states() gave before it is kept
StepKept(m) ==
    /\ frame.pc = "idle"
    /\ StepInBounds(1)
    /\ DoStep(m)
    /\ last' = Call("step", m)
    /\ ghost' = [NoRuns EXCEPT !.before = <<GetStates(m)>>]
    /\ UNCHANGED <<variant, params, graph, models, history, current_step, frame>>

\* initialize_states calls, then step calls
NextStep ==
    \/ \E m \in 1..models, fi \in Fracs, fz \in Fracs, seed \in Seeds :
            last.op # "step" /\ InitializeFresh(m, fi, fz, seed)
    \/ \E m \in 1..models : StepKept(m)

\* a model of any variant, initialised and then stepped
SpecStep == Init /\ [][NextStep]_vars

(* --------------------------------------- the Basic-Moderator step *)
\* test_moderation_effect: mu = 1.0 (always moderate), m = 1.0 (always succeed)
BM_PerfectParams == {[P EXCEPT !.mu = Q(1, 1), !.m = Q(1, 1)] : P \in BM_Params}

\* a Basic-Moderator model, with the fixture's parameters or perfect moderation
InitBM ==
    /\ variant = "SEIZBM"
    /\ params \in BM_Params \cup BM_PerfectParams
    /\ graph \in GraphsUpTo(MaxNodes)
    /\ models = 1
    /\ states = [m \in {1} |-> <<>>]
    /\ agent = BM_init(graph)
    /\ rng = RngStates
    /\ history = [m \in {1} |-> <<>>]
    /\ current_step = [m \in {1} |-> 0]
    /\ frame = Idle
    /\ last = Call("__init__", 1)
    /\ ghost = NoRuns

\* Basic-Moderator model m: step(); the states it starts from and what the node
\* loop did for each node are kept
BMStep(m) ==
    /\ frame.pc = "idle"
    /\ variant = "SEIZBM"
    /\ \E o \in BM_step_outcomes(agent, graph, params) :
            /\ agent' = o.agent
            /\ ghost' = [NoRuns EXCEPT !.before = <<Agent_get_states(agent, graph)>>,
                                       !.proposals = o.pass]
    /\ rng' = RngStates
    /\ last' = Call("step", m)
    /\ UNCHANGED <<variant, params, graph, models, states, history, current_step, frame>>

\* initialize_states calls, then step calls
NextBM ==
    \/ \E m \in 1..models, fi \in Fracs, fz \in Fracs, seed \in Seeds :
            last.op # "step" /\ InitializeFresh(m, fi, fz, seed)
    \/ \E m \in 1..models : BMStep(m)

SpecBM == InitBM /\ [][NextBM]_vars

(* --------------------------------------- the Smart-Moderator step *)
\* the fixture's parameters, with n = 1 sender and theta = 2, or n = 2 and theta = 1
SM_StepParams ==
    {[P EXCEPT !.n = c[1], !.theta = c[2]] : P \in SM_Params, c \in {<<1, 2>>, <<2, 1>>}}

\* a Smart-Moderator model
InitSM ==
    /\ variant = "SEIZSM"
    /\ params \in SM_StepParams
    /\ graph \in GraphsUpTo(MaxSMNodes)
    /\ models = 1
    /\ states = [m \in {1} |-> <<>>]
    /\ \E r \in RngStates : agent = SM_init(graph, r).agent /\ rng = {SM_init(graph, r).rng}
    /\ history = [m \in {1} |-> <<>>]
    /\ current_step = [m \in {1} |-> 0]
    /\ frame = Idle
    /\ last = Call("__init__", 1)
    /\ ghost = NoRuns

\* Smart-Moderator model m: step() is called and runs send_messages.  Kept: the
\* store the call found (before), the states at the start of the step, the
\* senders sampled and the list returned; the steps since the agents were made
\* or reset are counted
SMSendMessages(m) ==
    /\ frame.pc = "idle"
    /\ variant = "SEIZSM"
    /\ ghost.step_calls < MaxSMSteps
    /\ \E senders \in RandomSample(GraphNodes(graph), Min(params.n, graph.n)) :
        \E sent \in SM_send_from(params, agent, senders, 1, <<>>) :
            /\ agent' = sent.agent
            /\ ghost' = [NoRuns EXCEPT
                            !.before = <<agent>>,
                            !.step_calls = ghost.step_calls + 1,
                            !.phases = <<[phase |-> "send_messages",
                                          start |-> Agent_get_states(agent, graph),
                                          senders |-> senders,
                                          toxic_senders |-> sent.toxic_senders]>>]
    /\ frame' = [Idle EXCEPT !.pc = SM_phase_after("send_messages"), !.m = m]
    /\ rng' = RngStates
    /\ last' = Call("step", m)
    /\ UNCHANGED <<variant, params, graph, models, states, history, current_step>>

\* the step() call in progress runs spread_toxicity(toxic_senders)
SMSpreadToxicity(m) ==
    /\ frame.pc = "spread_toxicity" /\ frame.m = m
    /\ agent' \in SM_spread_toxicity(agent, graph, params, ghost.phases[1].toxic_senders)
    /\ ghost' = [ghost EXCEPT !.before = <<agent>>, !.phases[1].phase = "spread_toxicity"]
    /\ frame' = IF SM_phase_after("spread_toxicity") = "idle" THEN Idle
                ELSE [frame EXCEPT !.pc = SM_phase_after("spread_toxicity")]
    /\ UNCHANGED <<variant, params, graph, models, states, history, current_step, rng, last>>

\* the step() call in progress runs internal_transitions()
SMInternalTransitions(m) ==
    /\ frame.pc = "internal_transitions" /\ frame.m = m
    /\ agent' \in SM_internal_transitions(agent, graph, params)
    /\ ghost' = [ghost EXCEPT !.before = <<agent>>, !.phases[1].phase = "internal_transitions"]
    /\ frame' = IF SM_phase_after("internal_transitions") = "idle" THEN Idle
                ELSE [frame EXCEPT !.pc = SM_phase_after("internal_transitions")]
    /\ UNCHANGED <<variant, params, graph, models, states, history, current_step, rng, last>>

\* initialize_states calls, then step calls
NextSM ==
    \/ \E m \in 1..models, fi \in Fracs, fz \in Fracs, seed \in Seeds :
            last.op # "step" /\ InitializeFresh(m, fi, fz, seed)
    \/ \E m \in 1..models : SMSendMessages(m)
    \/ \E m \in 1..models : SMSpreadToxicity(m)
    \/ \E m \in 1..models : SMInternalTransitions(m)

SpecSM == InitSM /\ [][NextSM]_vars

(* ------------------------------------ every message toxic (T = 0) *)
\* test_toxic_message_tracking: T = 0.0 (everything is toxic), theta = 100 (high
\* threshold for intervention)
SM_ToxicParams ==
    {[P EXCEPT !.T = Q(0, 1), !.n = 2, !.theta = 100] : P \in SM_Params}

\* a Smart-Moderator model with parameters of the set Ps on a graph of at most
\* max_nodes nodes
InitSMWith(Ps, max_nodes) ==
    /\ variant = "SEIZSM"
    /\ params \in Ps
    /\ graph \in GraphsUpTo(max_nodes)
    /\ models = 1
    /\ states = [m \in {1} |-> <<>>]
    /\ \E r \in RngStates : agent = SM_init(graph, r).agent /\ rng = {SM_init(graph, r).rng}
    /\ history = [m \in {1} |-> <<>>]
    /\ current_step = [m \in {1} |-> 0]
    /\ frame = Idle
    /\ last = Call("__init__", 1)
    /\ ghost = NoRuns

InitToxic == InitSMWith(SM_ToxicParams, MaxSMNodes)

\* initialize_states calls, then step calls, every message being toxic
SpecToxic == InitToxic /\ [][NextSM]_vars

(* ------------------------------ the neighbour loop of spread_toxicity *)
\* T = 0, theta = 1 and three senders: on up to three nodes every node sends, and
\* every Infected one is recorded and can be moderated
SM_LiveParams ==
    {[P EXCEPT !.T = Q(0, 1), !.n = 3, !.theta = 1] : P \in SM_Params}

InitLive == InitSMWith(SM_LiveParams, MaxNodes)

\* the step() call in progress runs spread_toxicity(toxic_senders); its visits
\* are kept
SMSpreadVisits(m) ==
    /\ frame.pc = "spread_toxicity" /\ frame.m = m
    /\ \E r \in SM_spread_visits(params, agent,
                    SM_spread_targets(graph, ghost.phases[1].toxic_senders, 1), 1, <<>>) :
            /\ agent' = r.agent
            /\ ghost' = [ghost EXCEPT !.before = <<agent>>, !.proposals = r.visits,
                                      !.phases[1].phase = "spread_toxicity"]
    /\ frame' = IF SM_phase_after("spread_toxicity") = "idle" THEN Idle
                ELSE [frame EXCEPT !.pc = SM_phase_after("spread_toxicity")]
    /\ UNCHANGED <<variant, params, graph, models, states, history, current_step, rng, last>>

\* initialize_states calls, then one step call
NextLive ==
    \/ \E m \in 1..models, fi \in Fracs, fz \in Fracs, seed \in Seeds :
            last.op # "step" /\ InitializeFresh(m, fi, fz, seed)
    \/ \E m \in 1..models : last.op # "step" /\ SMSendMessages(m)
    \/ \E m \in 1..models : SMSpreadVisits(m)
    \/ \E m \in 1..models : SMInternalTransitions(m)

SpecLive == InitLive /\ [][NextLive]_vars

(* ------------------------------ consecutive Smart-Moderator steps *)
\* a Smart-Moderator model with one sender per step (theta = 1)
SM_TracedParams == {[P EXCEPT !.n = 1, !.theta = 1] : P \in SM_Params}

\* the model is on a path
InitTraced ==
    /\ InitSMWith(SM_TracedParams, MaxSMNodes)
    /\ graph \in {PathGraph(k) : k \in 0..MaxSMNodes}

\* model m: step(); of every step since initialize_states the store it started
\* from and its toxic_senders are kept
SMStepTraced(m) ==
    /\ frame.pc = "idle"
    /\ Len(ghost.trace) < MaxTracedSteps
    /\ \E o \in SM_step_senders(agent, graph, params) :
            /\ agent' = o.agent
            /\ ghost' = [ghost EXCEPT
                            !.trace = Append(@, [start |-> agent,
                                                 toxic_senders |-> o.toxic_senders])]
    /\ rng' = RngStates
    /\ last' = Call("step", m)
    /\ UNCHANGED <<variant, params, graph, models, states, history, current_step, frame>>

\* initialize_states calls, then step calls
NextTraced ==
    \/ \E m \in 1..models, fi \in Fracs, fz \in Fracs, seed \in Seeds :
            last.op # "step" /\ InitializeFresh(m, fi, fz, seed)
    \/ \E m \in 1..models : SMStepTraced(m)

SpecTraced == InitTraced /\ [][NextTraced]_vars

(* ------------------------------- moderator_intervention, called directly *)
\* Smart-Moderator model m: moderator_intervention(agent) for an agent with the
\* given state, profile and toxic_messages; the agent as handed over and as left
\* are the outcome (one call on each model)
ModeratorIntervention(m, state, profile, toxic_messages) ==
    /\ frame.pc = "idle"
    /\ last.op = "__init__"
    /\ variant = "SEIZSM"
    /\ LET a == [state |-> state, profile |-> profile, toxic_messages |-> toxic_messages,
                 activity_level |-> 0]
       IN \E r \in SM_moderator_intervention(params, a) :
            last' = [Call("moderator_intervention", m) EXCEPT !.out = <<a, r>>]
    /\ rng' = RngStates
    /\ UNCHANGED <<variant, params, graph, models, states, agent, history, current_step,
                   frame, ghost>>

NextModerator ==
    \E m \in 1..models, state \in StateNames, t1 \in Traits, t2 \in Traits, t3 \in Traits,
       k \in 0..MaxToxicMessages :
        ModeratorIntervention(m, state, <<t1, t2, t3>>, k)

\* a Smart-Moderator model (theta = 1 or 2) on the graph without nodes, the
\* generator in its first state: neither plays a part in the call
InitModerator == InitSM /\ graph = EmptyGraph(0) /\ rng = {0}

\* moderator_intervention applied to the offered agents
SpecModerator == InitModerator /\ [][NextModerator]_vars

(* ----------------------------------------------------------- properties *)
\* the number of nodes the mapping gs gives state s
CountOf(gs, s) == Cardinality({v \in DOMAIN gs : gs[v] = s})

\* floor(x) of a rational x >= 0, by its definition
Floor(x) == CHOOSE k \in 0..x[1] : k * x[2] <= x[1] /\ x[1] < (k + 1) * x[2]

\* n * frac for the graph of the model
NodesTimes(frac) == QMul(QInt(graph.n), frac)

\* the S, E, I, Z counts of a history record
RecordCounts(rec) == [s \in StateNames |-> rec[s]]

\* the last call entered was initialize_states / a run() that has returned
AfterInitializeStates == last.op = "initialize_states"
AfterRun == last.op = "run" /\ frame.pc = "idle"

\* the nodes at positions lo..hi (1-based) of the list initialize_states shuffled
ShuffledRange(lo, hi) == {ghost.nodes[i] : i \in lo..hi}

\* the fractions of the last initialize_states call ask for no more nodes than
\* the graph has
FitsGraph ==
    Floor(NodesTimes(last.infected_frac)) + Floor(NodesTimes(last.skeptic_frac)) <= graph.n

\* C1: Conservation.  In every variant, on every graph, every record of the history
\* that run() builds (after initialize_states or without it, during the run and
\* after it) has S + E + I + Z equal to the number of graph nodes.
C1_Conservation ==
    \A m \in 1..models : \A i \in 1..Len(history[m]) :
        LET rec == history[m][i]
        IN rec["S"] + rec["E"] + rec["I"] + rec["Z"] = graph.n

\* a run of at least one step after an initialize_states that infected a node,
\* whose last record differs from its first
C1_Witness ==
    /\ AfterRun /\ last.steps >= 1 /\ graph.n = 2
    /\ Len(history[1]) = last.steps + 1
    /\ history[1][1]["I"] >= 1
    /\ RecordCounts(history[1][1]) # RecordCounts(history[1][Len(history[1])])

\* C2: After construction and after any sequence of initialize_states and step
\* calls, get_states() of every model has exactly the graph nodes as its keys and
\* every value is one of S, E, I, Z.
C2_OneStatePerNode ==
    \A m \in 1..models :
        /\ DOMAIN GetStates(m) = GraphNodes(graph)
        /\ \A v \in DOMAIN GetStates(m) : GetStates(m)[v] \in StateNames

\* a step has just left three nodes in three different states, one of them Exposed
C2_Witness ==
    /\ last.op = "step" /\ graph.n = 3
    /\ CountOf(GetStates(1), "E") = 1
    /\ Cardinality({GetStates(1)[v] : v \in GraphNodes(graph)}) = 3

\* C3: History length.  When run(steps = k) has returned, the history has exactly
\* k + 1 records, their step fields are 0, 1, ..., k in that order, and step() was
\* called exactly k times.
C3_HistoryLength ==
    AfterRun =>
        /\ Len(history[last.m]) = last.steps + 1
        /\ \A i \in 1..Len(history[last.m]) : history[last.m][i]["step"] = i - 1
        /\ ghost.step_calls = last.steps

\* run(2) has returned
C3_Witness == AfterRun /\ last.steps = 2 /\ Len(history[last.m]) = 3 /\ ghost.runs = 1

\* C4: Snapshot before step.  The i-th record of a run holds the counts after exactly
\* i - 1 step() calls from the configuration run() was called in (the first record is
\* that configuration: run() does not re-initialise), at every point of the run; when
\* run() has returned there is one record per configuration passed through and the
\* last record is count_states() of the configuration it left.
C4_SnapshotBeforeStep ==
    ghost.runs > 0 =>
        /\ \A i \in 1..Len(history[last.m]) :
                /\ i <= Len(ghost.trace)
                /\ RecordCounts(history[last.m][i]) = ghost.trace[i]
        /\ AfterRun =>
                /\ Len(history[last.m]) = Len(ghost.trace)
                /\ RecordCounts(history[last.m][Len(history[last.m])])
                        = count_states(GetStates(last.m))

\* a run of two steps, each of which changed the counts, has returned
C4_Witness ==
    /\ AfterRun /\ last.steps = 2 /\ Len(ghost.trace) = 3
    /\ ghost.trace[1] # ghost.trace[2] /\ ghost.trace[2] # ghost.trace[3]
    /\ ghost.trace[1]["I"] >= 1

\* C5: History is rebuilt on every run.  When a second (or later) run(b) on a model
\* has returned, its history holds exactly b + 1 records, tagged 0..b, and they are
\* the records of this run: none of the earlier run is left.
C5_HistoryRebuilt ==
    (AfterRun /\ ghost.runs >= 2) =>
        /\ Len(history[last.m]) = last.steps + 1
        /\ \A i \in 1..Len(history[last.m]) :
                /\ history[last.m][i]["step"] = i - 1
                /\ RecordCounts(history[last.m][i]) = ghost.trace[i]

\* run(1) found the three records of an earlier run(2), and has returned
C5_Witness ==
    /\ AfterRun /\ ghost.runs = 2
    /\ ghost.old_len = 3 /\ last.steps = 1 /\ Len(history[last.m]) = 2

C7_SkepticAllocation ==
    (AfterInitializeStates /\ QLeq(QAdd(last.infected_frac, last.skeptic_frac), Q(1, 1))) =>
        LET gs == GetStates(last.m)
            ni == Floor(NodesTimes(last.infected_frac))
            nz == Floor(NodesTimes(last.skeptic_frac))
            I == {v \in DOMAIN gs : gs[v] = "I"}
            Z == {v \in DOMAIN gs : gs[v] = "Z"}
        IN /\ last.err = "none"
           /\ I = ShuffledRange(1, ni) /\ Cardinality(I) = ni
           /\ Z = ShuffledRange(ni + 1, ni + nz) /\ Cardinality(Z) = nz
           /\ I \cap Z = {}
           /\ CountOf(gs, "E") = 0
           /\ \A v \in DOMAIN gs : v \notin I \cup Z => gs[v] = "S"

\* three nodes, fractions 1/2 and 1/2: one Infected, one Skeptic, one Susceptible
C7_Witness ==
    /\ AfterInitializeStates /\ graph.n = 3
    /\ last.infected_frac = Q(1, 2) /\ last.skeptic_frac = Q(1, 2)
    /\ CountOf(GetStates(last.m), "I") = 1
    /\ CountOf(GetStates(last.m), "Z") = 1
    /\ CountOf(GetStates(last.m), "S") = 1

\* C8: Over-allocation is silent.  When floor(n * infected_frac) +
\* floor(n * skeptic_frac) > n, initialize_states raises no error, the skeptic
\* assignment stops at the node count and the counts sum to n.
C8_OverAllocationSilent ==
    (AfterInitializeStates /\ ~FitsGraph) =>
        LET gs == GetStates(last.m)
        IN /\ last.err = "none"
           /\ CountOf(gs, "Z") = graph.n - Floor(NodesTimes(last.infected_frac))
           /\ CountOf(gs, "S") + CountOf(gs, "E") + CountOf(gs, "I") + CountOf(gs, "Z")
                = graph.n

\* C9 as stated: after initialize_states from any reachable configuration no node
\* is Exposed, floor(n * infected_frac) nodes are Infected, floor(n * skeptic_frac)
\* nodes are Skeptic and every Smart-Moderator counter is 0.
C9_AsStated ==
    AfterInitializeStates =>
        LET gs == GetStates(last.m)
        IN /\ CountOf(gs, "E") = 0
           /\ CountOf(gs, "I") = Floor(NodesTimes(last.infected_frac))
           /\ CountOf(gs, "Z") = Floor(NodesTimes(last.skeptic_frac))
           /\ variant = "SEIZSM" =>
                \A v \in DOMAIN agent :
                    agent[v].toxic_messages = 0 /\ agent[v].activity_level = 0

\* C9: Re-initialisation replaces prior values.  After initialize_states from any
\* reachable configuration, with fractions asking for no more nodes than the graph
\* has (floor(n * infected_frac) + floor(n * skeptic_frac) <= n), no node is
\* Exposed, floor(n * infected_frac) nodes are Infected, floor(n * skeptic_frac)
\* nodes are Skeptic, whatever the states before the call, and every
\* Smart-Moderator counter is 0.
C9_ReinitialisationReplaces ==
    (AfterInitializeStates /\ FitsGraph) =>
        LET gs == GetStates(last.m)
        IN /\ CountOf(gs, "E") = 0
           /\ CountOf(gs, "I") = Floor(NodesTimes(last.infected_frac))
           /\ CountOf(gs, "Z") = Floor(NodesTimes(last.skeptic_frac))
           /\ variant = "SEIZSM" =>
                \A v \in DOMAIN agent :
                    agent[v].toxic_messages = 0 /\ agent[v].activity_level = 0

\* initialize_states found an Exposed node or a counter that was not 0, and
\* returned normally
C9_Witness ==
    /\ AfterInitializeStates /\ FitsGraph /\ last.err = "none"
    /\ ghost.dirty /\ graph.n >= 2
    /\ last.infected_frac = Q(1, 2)

\* C10: Reproducibility.  In every variant, initialize_states called on a second
\* model constructed on the same graph with the same parameters, with the fractions
\* and the (non-null) seed of a kept call on the other model, is followed by a
\* get_states() mapping equal to the kept one, whatever draws the generator served
\* before either call.
C10_Reproducibility ==
    (/\ AfterInitializeStates /\ ghost.ret # <<>>
     /\ last.seed # None
     /\ last.m # ghost.ret[1].m
     /\ last.seed = ghost.ret[1].seed
     /\ last.infected_frac = ghost.ret[1].infected_frac
     /\ last.skeptic_frac = ghost.ret[1].skeptic_frac)
        => GetStates(last.m) = ghost.ret[1].states

\* the second model is re-initialised with the seed kept from the first, on two
\* nodes of which one becomes Infected, after the generator was left elsewhere
C10_Witness ==
    /\ AfterInitializeStates /\ ghost.ret # <<>>
    /\ last.m = 2 /\ ghost.ret[1].m = 1
    /\ last.seed # None /\ last.seed = ghost.ret[1].seed
    /\ graph.n = 2 /\ last.infected_frac = Q(1, 2) /\ last.err = "none"
    /\ CountOf(GetStates(2), "I") = 1

\* the mapping c has the four state keys and gives each of them 0
AllZero(c) == \A s \in StateNames : s \in DOMAIN c /\ c[s] = 0

\* C11: Empty network.  On a graph with 0 nodes, in every variant, initialize_states,
\* step and run() raise no error, count_states() gives 0 for S, E, I and Z, every
\* history record has all four counts 0, and a run(k) that has returned left k + 1
\* records (6 for run(steps = 5)).
C11_EmptyNetwork ==
    graph.n = 0 =>
        /\ last.err = "none"
        /\ \A m \in 1..models :
                /\ GetStates(m) = <<>>
                /\ AllZero(count_states(GetStates(m)))
                /\ \A i \in 1..Len(history[m]) : AllZero(history[m][i])
        /\ AfterRun => Len(history[last.m]) = last.steps + 1

\* run(steps = 5) on the empty network has returned six records
C11_Witness ==
    /\ graph.n = 0 /\ AfterRun /\ last.steps = 5
    /\ Len(history[last.m]) = 6 /\ ghost.step_calls = 5

\* C12: count_states() always returns a mapping with the four keys S, E, I, Z, each
\* holding the number of nodes in that state (0 for a state no node occupies), in
\* every configuration reached by initialize_states and run() in every variant; every
\* history record has the four keys too.
C12_AllFourKeys ==
    \A m \in 1..models :
        LET gs == GetStates(m)
            c == count_states(gs)
        IN /\ \A s \in StateNames : s \in DOMAIN c /\ c[s] = CountOf(gs, s)
           /\ \A i \in 1..Len(history[m]) : StateNames \subseteq DOMAIN history[m][i]

\* during or after a run on two nodes: no node is Exposed or Skeptic now, and the
\* record taken at the start of the run has the keys E and Z with count 0
C12_Witness ==
    /\ graph.n = 2 /\ Len(history[1]) >= 2
    /\ history[1][1]["E"] = 0 /\ history[1][1]["Z"] = 0
    /\ CountOf(GetStates(1), "E") = 0 /\ CountOf(GetStates(1), "Z") = 0
    /\ count_states(GetStates(1))["Z"] = 0

ExportOps == {"to_json", "save_json", "plot", "save_plot"}

\* C13: Export or plot before any run fails.  On a model on which run() was never
\* called, to_json, save_json, plot and save_plot each raise an error and produce
\* no output.
C13_ExportBeforeRunFails ==
    (last.op \in ExportOps /\ ghost.runs = 0) =>
        last.err # "none" /\ last.out = <<>>

\* C14: Each model instance owns its store exclusively.  No constructor call,
\* initialize_states call or step call of one instance changes what get_states() of
\* another instance returns, also when both were constructed on the same graph
\* object, in every variant.
C14_ExclusiveStore ==
    [][\A m \in 1..models :
            last'.m # m => GetStatesOf(variant, states'[m], agent', graph) = GetStates(m)]_vars

\* C15: Toxicity bound.  For every agent whose three traits lie in [0, 1],
\* compute_toxicity returns their arithmetic mean (three times the value is their
\* sum), and the value lies in [0, 1].
C15_ToxicityBound ==
    last.op = "compute_toxicity" =>
        LET profile == last.out[1]
            t == last.out[2]
            sum == QAdd(QAdd(profile[1], profile[2]), profile[3])
        IN /\ t[2] > 0 /\ sum[2] > 0
           /\ 3 * t[1] * sum[2] = sum[1] * t[2]
           /\ 0 <= t[1] /\ t[1] <= t[2]

\* compute_toxicity was applied to three different traits, the first of them 1
C15_Witness ==
    /\ last.op = "compute_toxicity"
    /\ Cardinality({last.out[1][i] : i \in 1..3}) = 3
    /\ last.out[1][1] = Q(TraitSteps, TraitSteps)

AfterBaselineStep == last.op = "step" /\ ghost.before # <<>>
Before == ghost.before[1]
Range(seq) == {seq[i] : i \in 1..Len(seq)}

\* the neighbours of v that had a state of S at the start of the step
NeighboursIn(v, S) == {u \in GraphNodes(graph) : {u, v} \in graph.edges /\ Before[u] \in S}

\* C17: Baseline synchronous update.  Every proposal of a baseline step is generated
\* from the states at the start of the step: a node has proposals only if, at the
\* start, it was Exposed or Infected (its self-transition) or it was Susceptible
\* with an Infected or Skeptic neighbour, and a Susceptible node has at most one
\* proposal per neighbour that was Infected or Skeptic at the start; so a node that
\* becomes Infected or Skeptic in the step causes no proposal in that step.
C17_SynchronousUpdate ==
    AfterBaselineStep =>
        \A v \in GraphNodes(graph) :
            LET pl == ghost.proposals[v]
            IN /\ pl # <<>> =>
                    \/ Before[v] \in {"E", "I"}
                    \/ Before[v] = "S" /\ NeighboursIn(v, {"I", "Z"}) # {}
               /\ Before[v] = "S" =>
                    /\ Len(pl) <= Cardinality(NeighboursIn(v, {"I", "Z"}))
                    /\ "I" \in Range(pl) => NeighboursIn(v, {"I"}) # {}
                    /\ "Z" \in Range(pl) => NeighboursIn(v, {"Z"}) # {}

\* on the path 1 - 2 - 3, node 2 turned from Susceptible to Infected in the step,
\* and its Susceptible neighbour 3, which had no Infected or Skeptic neighbour at
\* the start, has no proposal and is still Susceptible
C17_Witness ==
    /\ AfterBaselineStep /\ graph = PathGraph(3)
    /\ Before = <<"I", "S", "S">>
    /\ states[1][2] = "I" /\ states[1][3] = "S" /\ ghost.proposals[3] = <<>>

\* C18: Baseline proposal resolution.  After a baseline step a node without
\* proposals has its prior state and a node with proposals has one of its own
\* proposals; before a step, for every list of proposals a node can accumulate,
\* every value in the list is a possible state of the node after the step (no
\* priority order).
C18_ProposalResolution ==
    /\ AfterBaselineStep =>
        \A v \in GraphNodes(graph) :
            IF ghost.proposals[v] = <<>> THEN states[1][v] = Before[v]
            ELSE states[1][v] \in Range(ghost.proposals[v])
    /\ (variant = "SEIZ" /\ frame.pc = "idle") =>
        \A v \in GraphNodes(graph) :
            \A pl \in SEIZ_proposals(states[1], graph, params, v) :
                \A x \in Range(pl) :
                    ENABLED (/\ BaselineStep(1)
                             /\ ghost'.proposals[v] = pl
                             /\ states'[1][v] = x)

\* a node with the proposals I and Z (in this order) ended Skeptic
C18_Witness ==
    /\ AfterBaselineStep
    /\ \E v \in GraphNodes(graph) :
            /\ ghost.proposals[v] = <<"I", "Z">>
            /\ states[1][v] = "Z"

\* C19 as stated: a node that can self-transition (it is Exposed or Infected) and has
\* an Infected or Skeptic neighbour can accumulate both a contact proposal and its
\* self-transition proposal in one baseline step.
C19_AsStated ==
    (variant = "SEIZ" /\ frame.pc = "idle") =>
        \A v \in GraphNodes(graph) :
            (/\ states[1][v] \in {"E", "I"}
             /\ \E u \in GraphNodes(graph) :
                    {u, v} \in graph.edges /\ states[1][u] \in {"I", "Z"})
                => ENABLED (BaselineStep(1) /\ Len(ghost'.proposals[v]) >= 2)

\* C19: In a baseline step a Susceptible node accumulates contact proposals only, up
\* to one from each neighbour that is Infected or Skeptic (several neighbours can
\* give several proposals); an Exposed or Infected node accumulates at most its one
\* self-transition proposal and never a contact proposal, and a Skeptic node none.
C19_ProposalKinds ==
    AfterBaselineStep =>
        \A v \in GraphNodes(graph) :
            LET pl == ghost.proposals[v]
            IN /\ Before[v] = "S" => Len(pl) <= Cardinality(NeighboursIn(v, {"I", "Z"}))
               /\ Before[v] = "E" => pl \in {<<>>, <<"I">>}
               /\ Before[v] = "I" => pl \in {<<>>, <<"E">>}
               /\ Before[v] = "Z" => pl = <<>>

\* a Susceptible node accumulated two contact proposals from two neighbours, while
\* an Infected neighbour of an Infected node accumulated its self-transition only
C19_Witness ==
    /\ AfterBaselineStep
    /\ \E v \in GraphNodes(graph) : Before[v] = "S" /\ Len(ghost.proposals[v]) = 2
    /\ \E v \in GraphNodes(graph) :
            /\ Before[v] = "I" /\ NeighboursIn(v, {"I"}) # {}
            /\ ghost.proposals[v] = <<"E">>

\* C20: Baseline transition relation.  In one baseline step a node either keeps its
\* state or changes S->I, S->E, S->Z, E->I or I->E; S->I needs a neighbour Infected
\* at the start of the step, S->Z a neighbour Skeptic at the start, S->E a neighbour
\* Infected or Skeptic at the start, and an Exposed node is changed by its own
\* self-transition only (its proposals never come from neighbours).
C20_TransitionRelation ==
    AfterBaselineStep =>
        \A v \in GraphNodes(graph) :
            LET old == Before[v]
                new == states[1][v]
            IN /\ old # new =>
                    <<old, new>> \in {<<"S", "I">>, <<"S", "E">>, <<"S", "Z">>,
                                      <<"E", "I">>, <<"I", "E">>}
               /\ (old = "S" /\ new = "I") => NeighboursIn(v, {"I"}) # {}
               /\ (old = "S" /\ new = "Z") => NeighboursIn(v, {"Z"}) # {}
               /\ (old = "S" /\ new = "E") => NeighboursIn(v, {"I", "Z"}) # {}
               /\ old = "E" => Range(ghost.proposals[v]) \subseteq {"I"}
                               /\ Len(ghost.proposals[v]) <= 1

\* one step changed a node S->Z and another node E->I
C20_Witness ==
    /\ AfterBaselineStep /\ graph.n = 3
    /\ \E v \in GraphNodes(graph) : Before[v] = "S" /\ states[1][v] = "Z"
    /\ \E v \in GraphNodes(graph) : Before[v] = "E" /\ states[1][v] = "I"

\* a step was the last call and the states at its start were kept (in Before)
AfterKeptStep == last.op = "step" /\ ghost.before # <<>>

\* C21: Skeptic is absorbing.  In all three variants a node that is Skeptic at the
\* start of a step is Skeptic at the end of it, so the Skeptic count after a step
\* is at least the Skeptic count before it (only initialize_states takes a node
\* out of Skeptic).
C21_SkepticAbsorbing ==
    AfterKeptStep =>
        /\ \A v \in GraphNodes(graph) : Before[v] = "Z" => GetStates(last.m)[v] = "Z"
        /\ CountOf(Before, "Z") <= CountOf(GetStates(last.m), "Z")

\* a Smart-Moderator step on two linked nodes, one Infected and one Skeptic at the
\* start: the Infected one was moderated to Skeptic, the Skeptic one still is
C21_Witness ==
    /\ AfterKeptStep /\ variant = "SEIZSM" /\ graph = CompleteGraph(2)
    /\ \E u, v \in GraphNodes(graph) :
            /\ Before[u] = "I" /\ Before[v] = "Z"
            /\ agent[u].state = "Z" /\ agent[v].state = "Z"

\* what the node loop of the last kept Basic-Moderator step did for node v
Pass(v) == ghost.proposals[v]

\* C22: Basic-Moderator buffered commit.  In one step every node's entry in
\* new_states comes from the states at the start of the step: a Susceptible node
\* draws only against neighbours Infected or Skeptic at the start, an Exposed node
\* only against neighbours Infected at the start, an entry I (Z) of a Susceptible
\* node needs a neighbour Infected (Skeptic) at the start; and the entries are
\* written after the pass: at the end a node has its entry, or its state of the
\* start if it has none.  So no node sees a state written in the same step.
C22_BufferedCommit ==
    AfterKeptStep =>
        \A v \in GraphNodes(graph) :
            /\ Before[v] = "S" =>
                    /\ \A u \in Range(Pass(v).tried) : u \in NeighboursIn(v, {"I", "Z"})
                    /\ Pass(v).entry = "I" => NeighboursIn(v, {"I"}) # {}
                    /\ Pass(v).entry = "Z" => NeighboursIn(v, {"Z"}) # {}
                    /\ Pass(v).entry = "E" => NeighboursIn(v, {"I", "Z"}) # {}
            /\ Before[v] = "E" =>
                    \A u \in Range(Pass(v).tried) : u \in NeighboursIn(v, {"I"})
            /\ Before[v] \in {"I", "Z"} => Pass(v).tried = <<>>
            /\ agent[v].state = IF Pass(v).entry = "none" THEN Before[v] ELSE Pass(v).entry

\* on the path 1 - 2 - 3, node 2 turned from Susceptible to Infected in the step;
\* node 3, Susceptible with no Infected or Skeptic neighbour at the start, made no
\* draw and is still Susceptible
C22_Witness ==
    /\ AfterKeptStep /\ variant = "SEIZBM" /\ graph = PathGraph(3)
    /\ Before = <<"I", "S", "S">>
    /\ agent[2].state = "I" /\ agent[3].state = "S" /\ Pass(3).tried = <<>>

\* the neighbours of v, in iteration order, that had a state of S at the start
NeighbourSeqIn(v, S) == SelectSeq(Neighbors(graph, v), LAMBDA u : Before[u] \in S)

\* the first neighbour of v, in iteration order, that had state s at the start
FirstIn(v, s) == IF NeighbourSeqIn(v, {s}) = <<>> THEN {} ELSE {NeighbourSeqIn(v, {s})[1]}

Last(seq) == seq[Len(seq)]

\* C23 as stated: in one Basic-Moderator step a Susceptible node draws only against
\* its first Infected neighbour and its first Skeptic neighbour in iteration order.
C23_AsStated ==
    AfterKeptStep /\ variant = "SEIZBM" =>
        \A v \in GraphNodes(graph) :
            Before[v] = "S" => Range(Pass(v).tried) \subseteq FirstIn(v, "I") \cup FirstIn(v, "Z")

\* C23 (amended): in one Basic-Moderator step a Susceptible node draws against its
\* neighbours that are Infected (beta) or Skeptic (b), one after another in
\* iteration order, until the first draw that succeeds: the neighbours after that
\* one are not tried and the entry comes from that neighbour alone (I or E from an
\* Infected one, Z or E from a Skeptic one); a draw that fails does not stop the
\* scan, and with no success all these neighbours are tried and there is no entry.
C23_FirstSuccess ==
    AfterKeptStep /\ variant = "SEIZBM" =>
        \A v \in GraphNodes(graph) :
            Before[v] = "S" =>
                LET tried == Pass(v).tried
                    entry == Pass(v).entry
                    all == NeighbourSeqIn(v, {"I", "Z"})
                IN /\ Len(tried) <= Len(all) /\ tried = SubSeq(all, 1, Len(tried))
                   /\ entry = "none" => tried = all
                   /\ entry # "none" => tried # <<>>
                   /\ entry = "I" => Before[Last(tried)] = "I"
                   /\ entry = "Z" => Before[Last(tried)] = "Z"

\* a Susceptible node with two Infected neighbours: the draw against the first
\* failed, the draw against the second succeeded and the node is Infected
C23_Witness ==
    /\ AfterKeptStep /\ variant = "SEIZBM"
    /\ \E v \in GraphNodes(graph) :
            /\ Before[v] = "S" /\ Len(Pass(v).tried) = 2
            /\ Before[Pass(v).tried[1]] = "I" /\ Before[Pass(v).tried[2]] = "I"
            /\ Pass(v).entry = "I" /\ agent[v].state = "I"

\* the state changes a Basic-Moderator step can make to a node
BM_Changes == {<<"S", "I">>, <<"S", "E">>, <<"S", "Z">>, <<"E", "I">>, <<"I", "S">>}

\* C24: Basic-Moderator transition relation.  In one step a node gets at most one
\* entry and keeps its state or changes S->I, S->E, S->Z, E->I or I->S; S->I needs a
\* neighbour Infected at the start, S->Z a neighbour Skeptic at the start; an
\* Exposed node becomes Infected by its epsilon draw (then no rho draw is made)
\* or, that draw failing, by a rho draw against a neighbour Infected at the
\* start, and otherwise stays Exposed.
C24_TransitionRelation ==
    AfterKeptStep /\ variant = "SEIZBM" =>
        \A v \in GraphNodes(graph) :
            LET now == agent[v].state
            IN /\ Pass(v).entry \in StateNames \cup {"none"}
               /\ now = Before[v] \/ <<Before[v], now>> \in BM_Changes
               /\ Before[v] = "S" /\ now = "I" => NeighboursIn(v, {"I"}) # {}
               /\ Before[v] = "S" /\ now = "Z" => NeighboursIn(v, {"Z"}) # {}
               /\ Before[v] = "E" =>
                    /\ now \in {"E", "I"}
                    /\ Pass(v).own => now = "I" /\ Pass(v).tried = <<>>
                    /\ now = "I" /\ ~Pass(v).own =>
                            /\ Pass(v).tried # <<>>
                            /\ Range(Pass(v).tried) \subseteq NeighboursIn(v, {"I"})
                    /\ now = "E" => Range(Pass(v).tried) = NeighboursIn(v, {"I"})

\* an Exposed node whose epsilon draw failed became Infected by a rho draw, while
\* a Susceptible node became Skeptic and an Infected one Susceptible
C24_Witness ==
    /\ AfterKeptStep /\ variant = "SEIZBM"
    /\ \E v \in GraphNodes(graph) :
            Before[v] = "E" /\ ~Pass(v).own /\ Pass(v).tried # <<>> /\ agent[v].state = "I"
    /\ \E v \in GraphNodes(graph) : Before[v] = "I" /\ agent[v].state = "S"

\* the model was constructed with mu = 1 and m = 1
PerfectModeration == params.mu = Q(1, 1) /\ params.m = Q(1, 1)

\* C25: Basic-Moderator moderation.  A node Infected at the start of a step is, at
\* its end, Susceptible (the mu draw and then the m draw succeeded) or still
\* Infected, never Exposed or Skeptic; with mu = 1 and m = 1 every node Infected at
\* the start of a step is Susceptible at its end.
C25_Moderation ==
    AfterKeptStep /\ variant = "SEIZBM" =>
        \A v \in GraphNodes(graph) :
            Before[v] = "I" =>
                /\ agent[v].state \in {"S", "I"}
                /\ agent[v].state = "S" <=> Pass(v).own /\ Pass(v).entry = "S"
                /\ PerfectModeration => agent[v].state = "S"

\* with mu = 1 and m = 1, a step from a configuration with Infected nodes, each of
\* them Susceptible at the end
C25_Witness ==
    /\ AfterKeptStep /\ variant = "SEIZBM" /\ PerfectModeration
    /\ \E v \in GraphNodes(graph) : Before[v] = "I"
    /\ \A v \in GraphNodes(graph) : Before[v] = "I" => agent[v].state = "S"

\* the number of Infected nodes get_states() reports
InfectedCount == CountOf(Agent_get_states(agent, graph), "I")

\* C26: with mu = 1 and m = 1, the Infected count after a step that follows
\* initialize_states is at most the Infected count right after the initialisation.
C26_NoGrowth ==
    [][(/\ variant = "SEIZBM" /\ PerfectModeration
        /\ last.op = "initialize_states" /\ last.err = "none"
        /\ last'.op = "step") => InfectedCount' <= InfectedCount]_vars

\* a Smart-Moderator step is in progress or was the last call: Phase is the call
\* of it that ran last, PhaseStart the store that call found, StepStart the
\* states at the start of the step
InSMStep == last.op = "step" /\ ghost.phases # <<>>
Phase == ghost.phases[1].phase
PhaseStart == ghost.before[1]
StepStart == ghost.phases[1].start
Senders == ghost.phases[1].senders
ToxicSenders == ghost.phases[1].toxic_senders

\* v is a neighbour of a node of the list
NeighbourOfSome(v, list) == \E u \in Range(list) : {u, v} \in graph.edges

\* C27: Smart-Moderator phase order.  One step runs send_messages, then
\* spread_toxicity, then internal_transitions and returns, each on the store the
\* call before it left: the message phase changes the state of Infected senders
\* only, the spread phase that of Susceptible and Exposed neighbours of toxic
\* senders only, the internal phase that of Exposed nodes only, to Infected or
\* Skeptic; and when the internal phase starts, every node that is Exposed then,
\* also one that became Exposed in this step, can end the step Infected and can
\* end it Skeptic.
C27_PhaseOrder ==
    InSMStep =>
        /\ Phase = "send_messages" <=> frame.pc = "spread_toxicity"
        /\ Phase = "spread_toxicity" <=> frame.pc = "internal_transitions"
        /\ Phase = "internal_transitions" <=> frame.pc = "idle"
        /\ \A v \in GraphNodes(graph) :
            /\ agent[v].state # PhaseStart[v].state =>
                    \/ /\ Phase = "send_messages"
                       /\ PhaseStart[v].state = "I" /\ v \in Range(Senders)
                    \/ /\ Phase = "spread_toxicity"
                       /\ PhaseStart[v].state \in {"S", "E"}
                       /\ NeighbourOfSome(v, ToxicSenders)
                    \/ /\ Phase = "internal_transitions"
                       /\ PhaseStart[v].state = "E" /\ agent[v].state \in {"I", "Z"}
            /\ frame.pc = "internal_transitions" /\ agent[v].state = "E" =>
                    \A s \in {"I", "Z"} :
                        ENABLED (SMInternalTransitions(frame.m) /\ agent'[v].state = s)

\* a step has returned in which a node Infected at the start, made Exposed by the
\* message phase, was made Infected again by the internal phase
C27_Witness ==
    /\ InSMStep /\ frame.pc = "idle"
    /\ \E v \in GraphNodes(graph) :
            /\ StepStart[v] = "I" /\ v \in Range(ToxicSenders)
            /\ PhaseStart[v].state = "E" /\ agent[v].state = "I"

\* the sum of the activity counters of nodes 1..k
RECURSIVE ActivitySum(_)
ActivitySum(k) == IF k = 0 THEN 0 ELSE agent[k].activity_level + ActivitySum(k - 1)

\* C28: Smart-Moderator senders and activity.  In each step exactly
\* min(n, node count) distinct nodes are senders; the message phase raises the
\* activity counter of each sender by exactly 1, whatever its state, and changes
\* no other activity counter, and the other phases change none; so after k steps
\* on agents made or reset with counters 0 the activity counters sum to
\* k * min(n, node count).
C28_SendersAndActivity ==
    variant = "SEIZSM" =>
        /\ InSMStep =>
            /\ Len(Senders) = Min(params.n, graph.n)
            /\ Cardinality(Range(Senders)) = Len(Senders)
            /\ Range(Senders) \subseteq GraphNodes(graph)
            /\ \A v \in GraphNodes(graph) :
                    agent[v].activity_level =
                        PhaseStart[v].activity_level
                            + (IF Phase = "send_messages" /\ v \in Range(Senders) THEN 1 ELSE 0)
        /\ ActivitySum(graph.n) = ghost.step_calls * Min(params.n, graph.n)

\* two steps of a model with n = 1 on two nodes have returned: the counters sum
\* to 2, and the sender of the second step was Skeptic at its start
C28_Witness ==
    /\ InSMStep /\ frame.pc = "idle" /\ ghost.step_calls = 2
    /\ params.n = 1 /\ graph.n = 2 /\ ActivitySum(graph.n) = 2
    /\ \E v \in Range(Senders) : StepStart[v] = "Z"

\* C29: Smart-Moderator counter reset.  moderator_intervention leaves the profile
\* and the activity counter alone and the toxic-message counter at 0 or more; it
\* changes nothing if the counter is below theta, and otherwise either nothing
\* (both draws failed) or it sets the state to Exposed or Skeptic and the counter
\* to 0, the two together: the state changes only with a reset, and on an
\* Infected agent (the only kind the step passes) the counter is reset only with a
\* change of state.
C29_CounterReset ==
    last.op = "moderator_intervention" =>
        LET a == last.out[1]
            r == last.out[2]
        IN /\ r.toxic_messages >= 0
           /\ r.profile = a.profile /\ r.activity_level = a.activity_level
           /\ a.toxic_messages < params.theta => r = a
           /\ r # a => r.state \in {"E", "Z"} /\ r.toxic_messages = 0
           /\ r.state # a.state => r.toxic_messages = 0
           /\ a.state = "I" => (r.toxic_messages # a.toxic_messages <=> r.state # "I")
           /\ a.state = "I" /\ r.state = "I" => r = a

\* an Infected agent with its counter at theta or more was made Skeptic and its
\* counter reset
C29_Witness ==
    /\ last.op = "moderator_intervention"
    /\ last.out[1].state = "I" /\ last.out[1].toxic_messages >= params.theta
    /\ last.out[1].toxic_messages > 0
    /\ last.out[2].state = "Z" /\ last.out[2].toxic_messages = 0

\* C30: Smart-Moderator exit from Infected.  A node that is Infected when a phase
\* of a step starts and is not when it ends was, in the message phase, a sender
\* with toxicity >= T whose toxic-message counter, raised by this message, was
\* >= theta; it is then Exposed or Skeptic, with its counter at 0.  The spread
\* phase and the internal phase leave every Infected node Infected.
C30_ExitFromInfected ==
    InSMStep =>
        \A v \in GraphNodes(graph) :
            PhaseStart[v].state = "I" /\ agent[v].state # "I" =>
                /\ Phase = "send_messages"
                /\ v \in Range(Senders) /\ v \in Range(ToxicSenders)
                /\ QLeq(params.T, SM_compute_toxicity(PhaseStart[v]))
                /\ PhaseStart[v].toxic_messages + 1 >= params.theta
                /\ agent[v].state \in {"E", "Z"}
                /\ agent[v].toxic_messages = 0

\* with theta = 2, an Infected node whose counter stood at 1 sent its second toxic
\* message and was made Skeptic in the message phase
C30_Witness ==
    /\ InSMStep /\ Phase = "send_messages" /\ params.theta = 2
    /\ \E v \in Range(ToxicSenders) :
            /\ PhaseStart[v].state = "I" /\ PhaseStart[v].toxic_messages = 1
            /\ agent[v].state = "Z"

\* C31: Smart-Moderator spread uses the recorded sender list.  The nodes recorded
\* as toxic senders are senders that were Infected at the start of the step; the
\* spread phase changes only neighbours of recorded senders (a Susceptible one to
\* Infected or Exposed, an Exposed one to Infected); and when the spread phase
\* starts, every Susceptible neighbour of a recorded sender can be made Infected
\* and can be made Exposed by it, every Exposed neighbour Infected, also when
\* moderation has moved that sender out of Infected in the message phase.
C31_RecordedSenders ==
    InSMStep =>
        /\ \A u \in Range(ToxicSenders) : u \in Range(Senders) /\ StepStart[u] = "I"
        /\ Phase = "spread_toxicity" =>
                \A v \in GraphNodes(graph) :
                    agent[v].state # PhaseStart[v].state =>
                        /\ NeighbourOfSome(v, ToxicSenders)
                        /\ <<PhaseStart[v].state, agent[v].state>>
                                \in {<<"S", "I">>, <<"S", "E">>, <<"E", "I">>}
        /\ frame.pc = "spread_toxicity" =>
                \A v \in GraphNodes(graph) :
                    NeighbourOfSome(v, ToxicSenders) =>
                        /\ agent[v].state = "S" =>
                                \A s \in {"I", "E"} :
                                    ENABLED (SMSpreadToxicity(frame.m) /\ agent'[v].state = s)
                        /\ agent[v].state = "E" =>
                                ENABLED (SMSpreadToxicity(frame.m) /\ agent'[v].state = "I")

\* the spread phase made a Susceptible node Infected whose only neighbour, a
\* recorded toxic sender, had been moderated out of Infected in the message phase
C31_Witness ==
    /\ InSMStep /\ Phase = "spread_toxicity" /\ graph = CompleteGraph(2)
    /\ \E u \in Range(ToxicSenders), v \in GraphNodes(graph) :
            /\ u # v /\ agent[u].state # "I"
            /\ PhaseStart[v].state = "S" /\ agent[v].state = "I"

\* the visits of the spread phase that has just ended
Visits == ghost.proposals

\* the state of node v when visit j of the spread phase is made: the state the
\* last earlier visit to v left, the state at the start of the phase if none
StateAtVisit(v, j) ==
    LET earlier == {i \in 1..(j - 1) : Visits[i].node = v}
    IN IF earlier = {} THEN PhaseStart[v].state
       ELSE Visits[CHOOSE i \in earlier : \A k \in earlier : k <= i].left

\* x and y are distinct, adjacent, and both neighbours of recorded toxic senders
VisitedNeighbours(x, y) ==
    /\ x # y /\ {x, y} \in graph.edges
    /\ NeighbourOfSome(x, ToxicSenders) /\ NeighbourOfSome(y, ToxicSenders)

\* the state mappings the spread phase about to run can end with
SpreadEnds ==
    {[v \in GraphNodes(graph) |-> r[v].state]
        : r \in SM_spread_toxicity(agent, graph, params, ToxicSenders)}

\* the states the spread phase about to run can leave x and y in together are
\* all the pairs of a state it can leave x in and a state it can leave y in
EndsIndependent(x, y) ==
    {<<c[x], c[y]>> : c \in SpreadEnds}
        = {c[x] : c \in SpreadEnds} \X {c[y] : c \in SpreadEnds}

\* C32 as stated: when the spread phase starts, for adjacent nodes x and y that
\* are both evaluated in it, what the phase does to x can change the outcome of
\* the evaluation of y: some state y can be left in is possible with one outcome
\* for x and impossible with another.
C32_AsStated ==
    InSMStep /\ frame.pc = "spread_toxicity" =>
        \A x, y \in GraphNodes(graph) :
            VisitedNeighbours(x, y) /\ agent[x].state \in {"S", "E"} =>
                ~EndsIndependent(x, y)

\* C32: Smart-Moderator live store within a phase.  The neighbour loop of the
\* spread phase writes each change at once: every visit reads the state the last
\* earlier visit to the same node left (the phase-start state if there was none),
\* changes it only if it reads Susceptible or Exposed, and the node ends the phase
\* in the state its last visit left.  So a change applied early in the phase can
\* change the outcome of a later evaluation of the same node (a neighbour of two
\* toxic senders is evaluated twice), and of no other node: every state a node can
\* be left in and every state one of its neighbours can be left in can be left
\* together.
C32_LiveStore ==
    InSMStep =>
        /\ Phase = "spread_toxicity" =>
            /\ \A j \in 1..Len(Visits) :
                    /\ Visits[j].read = StateAtVisit(Visits[j].node, j)
                    /\ Visits[j].left # Visits[j].read =>
                            \/ Visits[j].read = "S" /\ Visits[j].left \in {"E", "I"}
                            \/ Visits[j].read = "E" /\ Visits[j].left = "I"
            /\ \A v \in GraphNodes(graph) :
                    agent[v].state = StateAtVisit(v, Len(Visits) + 1)
            /\ agent \in SM_spread_toxicity(PhaseStart, graph, params, ToxicSenders)
        /\ frame.pc = "spread_toxicity" =>
            \A x, y \in GraphNodes(graph) :
                VisitedNeighbours(x, y) => EndsIndependent(x, y)

\* a node the message phase left Exposed, neighbour of two toxic senders, was
\* visited twice in the spread phase: the first visit read Exposed and left it
\* Infected, the second read Infected
C32_Witness ==
    /\ InSMStep /\ Phase = "spread_toxicity"
    /\ \E i, j \in 1..Len(Visits) :
            /\ i < j /\ Visits[i].node = Visits[j].node
            /\ PhaseStart[Visits[i].node].state = "E"
            /\ Visits[i].read = "E" /\ Visits[i].left = "I"
            /\ Visits[j].read = "I" /\ Visits[j].left = "I"
            /\ agent[Visits[j].node].state = "I"

\* C33: every message toxic.  With T = 0 every sender that is Infected when it
\* sends is recorded as a toxic sender, in sending order, and its toxic-message
\* counter is raised by exactly 1; with theta above the number of steps no node
\* leaves Infected, no counter falls in any phase, and the counter of a node that
\* has been Infected since its agents were made or reset equals its activity
\* counter.
C33_AllToxic ==
    variant = "SEIZSM" /\ params.T = Q(0, 1) /\ params.theta > MaxSMSteps /\ InSMStep =>
        /\ ToxicSenders = SelectSeq(Senders, LAMBDA v : StepStart[v] = "I")
        /\ \A v \in GraphNodes(graph) :
                /\ PhaseStart[v].state = "I" => agent[v].state = "I"
                /\ agent[v].toxic_messages =
                        PhaseStart[v].toxic_messages
                            + (IF /\ Phase = "send_messages" /\ v \in Range(Senders)
                                  /\ PhaseStart[v].state = "I" THEN 1 ELSE 0)
                /\ StepStart[v] = "I" /\ ghost.step_calls = 1 =>
                        agent[v].toxic_messages = agent[v].activity_level

\* the message phase of a second step has raised the toxic-message counter of an
\* Infected sender to 2
C33_Witness ==
    /\ InSMStep /\ Phase = "send_messages" /\ ghost.step_calls = 2
    /\ params.T = Q(0, 1) /\ params.theta > MaxSMSteps
    /\ \E v \in Range(ToxicSenders) :
            /\ PhaseStart[v].state = "I" /\ PhaseStart[v].toxic_messages = 1
            /\ agent[v].state = "I" /\ agent[v].toxic_messages = 2

\* v has a neighbour whose state is s
HasNeighbourIn(v, s) == \E u \in GraphNodes(graph) : {u, v} \in graph.edges /\ agent[u].state = s

\* C34: Susceptible-Skeptic contact in the Smart-Moderator variant.  When the
\* spread phase of a step starts, a Susceptible node that has a Skeptic neighbour
\* can be made Skeptic by it (contact rate b, probability l).
C34_SkepticContact ==
    variant = "SEIZSM" /\ frame.pc = "spread_toxicity" =>
        \A v \in GraphNodes(graph) :
            agent[v].state = "S" /\ HasNeighbourIn(v, "Z") =>
                ENABLED (SMSpreadToxicity(frame.m) /\ agent'[v].state = "Z")

\* the trait values of the agents of a Smart-Moderator model
Profiles == IF variant = "SEIZSM" THEN [v \in DOMAIN agent |-> agent[v].profile] ELSE <<>>

\* C35: frame of the operations.  No initialize_states, step or run call changes
\* the variant, the parameter set or the graph's nodes and edges; the trait values
\* of a Smart-Moderator agent change only in an initialize_states call, never in
\* a step, called directly or by run; and a step called directly changes nothing
\* but the per-node states and counters: the history and current_step stay.
C35_Frame ==
    [][/\ variant' = variant /\ params' = params /\ graph' = graph /\ models' = models
       /\ Profiles' # Profiles =>
                /\ frame.pc = "idle" /\ frame' = frame
                /\ last'.op = "initialize_states"
       /\ frame.pc = "idle" /\ frame' = frame /\ last'.op = "step" =>
                history' = history /\ current_step' = current_step]_vars

\* a run of a Smart-Moderator model has returned after a step in which a sender
\* was moderated: it is not Infected, its activity counter is not 0
C35_Witness ==
    /\ variant = "SEIZSM" /\ frame.pc = "idle" /\ last.op = "run" /\ ghost.step_calls >= 1
    /\ \E v \in DOMAIN agent : agent[v].state \in {"E", "Z"} /\ agent[v].activity_level > 0

\* the states whose presence in a neighbour lets a step change a Susceptible node
Contagious == IF variant = "SEIZSM" THEN {"I"} ELSE {"I", "Z"}

SusceptibleIn(gs) == {v \in DOMAIN gs : gs[v] = "S"}

\* C37: no return to Susceptible.  In the baseline and Smart-Moderator variants
\* the nodes Susceptible at the end of a step were Susceptible at its start, so
\* the S count does not grow; in the Basic-Moderator variant a node that a step
\* made Susceptible was Infected at its start.
C37_NoReturnToS ==
    AfterKeptStep =>
        /\ variant # "SEIZBM" =>
                /\ SusceptibleIn(GetStates(last.m)) \subseteq SusceptibleIn(Before)
                /\ CountOf(GetStates(last.m), "S") <= CountOf(Before, "S")
        /\ variant = "SEIZBM" =>
                \A v \in SusceptibleIn(GetStates(last.m)) : Before[v] \in {"S", "I"}

\* a Basic-Moderator step has moved an Infected node to Susceptible, and the S
\* count has grown
C37_Witness ==
    /\ AfterKeptStep /\ variant = "SEIZBM"
    /\ \E v \in GraphNodes(graph) : Before[v] = "I" /\ GetStates(last.m)[v] = "S"
    /\ CountOf(GetStates(last.m), "S") > CountOf(Before, "S")

\* C38: Smart-Moderator counter invariant.  From construction on, through
\* initialize_states calls and steps, every node that is not Infected has its
\* toxic-message counter at 0, and every node's toxic-message counter is at least
\* 0 and at most its activity counter.
C38_CounterInvariant ==
    variant = "SEIZSM" =>
        \A v \in DOMAIN agent :
            /\ agent[v].state # "I" => agent[v].toxic_messages = 0
            /\ 0 <= agent[v].toxic_messages
            /\ agent[v].toxic_messages <= agent[v].activity_level

\* after a step, an Infected node has sent a toxic message and kept its counter
\* at 1, and a node that has sent is not Infected, its counter at 0
C38_Witness ==
    /\ variant = "SEIZSM" /\ last.op = "step"
    /\ \E u, v \in DOMAIN agent :
            /\ agent[u].state = "I" /\ agent[u].toxic_messages = 1
            /\ agent[v].state # "I" /\ agent[v].activity_level = 1
            /\ agent[v].toxic_messages = 0

\* the steps made since initialize_states, and the store step j ended with
Trace == ghost.trace
StoreAfter(j) == IF j = Len(Trace) THEN agent ELSE Trace[j + 1].start

\* in store ag every Infected node has toxicity below T
AllInfectedBelowT(ag) ==
    \A v \in DOMAIN ag :
        ag[v].state = "I" => ~QLeq(params.T, SM_compute_toxicity(ag[v]))

\* C39 as stated: once every Infected node has toxicity below T, no Susceptible
\* node changes state in any later step.
C39_AsStated ==
    \A i \in 1..Len(Trace) :
        AllInfectedBelowT(Trace[i].start) =>
            \A j \in i..Len(Trace) :
                \A v \in DOMAIN agent :
                    Trace[j].start[v].state = "S" => StoreAfter(j)[v].state = "S"

\* C39: Infected nodes below T.  A step leaves an Infected node whose toxicity
\* is below T Infected, its toxic-message counter 0, and does not record it as a
\* toxic sender.  If every node Infected at the start of a step has toxicity
\* below T, the step records no toxic sender and changes no Susceptible node; if
\* moreover no node is Exposed then (as after initialize_states), no node changes
\* state in that step or in any later one.
C39_BelowT ==
    \A j \in 1..Len(Trace) :
        /\ \A v \in DOMAIN agent :
                /\ Trace[j].start[v].state = "I"
                /\ ~QLeq(params.T, SM_compute_toxicity(Trace[j].start[v]))
                => /\ StoreAfter(j)[v].state = "I"
                   /\ Trace[j].start[v].toxic_messages = 0
                   /\ StoreAfter(j)[v].toxic_messages = 0
                   /\ v \notin Range(Trace[j].toxic_senders)
        /\ AllInfectedBelowT(Trace[j].start) =>
                /\ Trace[j].toxic_senders = <<>>
                /\ \A v \in DOMAIN agent :
                        Trace[j].start[v].state = "S" => StoreAfter(j)[v].state = "S"
                /\ (\A v \in DOMAIN agent : Trace[j].start[v].state # "E") =>
                        \A k \in j..Len(Trace) :
                            Agent_get_states(StoreAfter(k), graph)
                                = Agent_get_states(Trace[j].start, graph)

\* three steps from a store with a Susceptible node and an Infected node below
\* T, linked, and no Exposed node: no state has changed
C39_Witness ==
    /\ Len(Trace) = MaxTracedSteps /\ graph.n = 2 /\ graph.edges # {}
    /\ AllInfectedBelowT(Trace[1].start)
    /\ \E u, v \in DOMAIN agent :
            /\ Trace[1].start[u].state = "I" /\ Trace[1].start[v].state = "S"
            /\ agent[u].state = "I" /\ agent[v].state = "S"
            /\ agent[u].activity_level = MaxTracedSteps

\* the state mappings the internal phase about to run can end with
InternalEnds ==
    {Agent_get_states(r, graph) : r \in SM_internal_transitions(agent, graph, params)}

\* C40: moderation can be undone within the step.  A node that was Infected at
\* the start of the step and that the message phase left Exposed can be made
\* Infected again by the spread phase if it is a neighbour of a toxic sender, and,
\* if it is still Exposed when the internal phase starts, can end the step
\* Infected, Skeptic or Exposed.
C40_ModerationUndone ==
    InSMStep =>
        \A v \in GraphNodes(graph) :
            StepStart[v] = "I" /\ agent[v].state = "E" =>
                /\ frame.pc = "spread_toxicity" /\ NeighbourOfSome(v, ToxicSenders) =>
                        \E e \in SpreadEnds : e[v] = "I"
                /\ frame.pc = "internal_transitions" =>
                        \A s \in {"E", "I", "Z"} : \E e \in InternalEnds : e[v] = s

\* the spread phase has made Infected again a node, Infected at the start of the
\* step, that the message phase had left Exposed
C40_Witness ==
    /\ InSMStep /\ Phase = "spread_toxicity"
    /\ \E v \in GraphNodes(graph) :
            /\ StepStart[v] = "I" /\ v \in Range(ToxicSenders)
            /\ NeighbourOfSome(v, ToxicSenders)
            /\ PhaseStart[v].state = "E" /\ PhaseStart[v].toxic_messages = 0
            /\ agent[v].state = "I"
====
